---- MODULE Spec2Model ----
(***************************************************************************)
(* Verification model of the 24-point game (cal_24).                       *)
(*                                                                         *)
(* Spec         : the expression engine of utils/gameLogic                 *)
(*                (flattenCards, isValidCardSequence, parseExpression,     *)
(*                evaluateAST, generateExpressionString,                   *)
(*                calculateExpression) applied to card lists.              *)
(* SpecQuestion : the combinatorics engine and question generator          *)
(*                (countSolutions, hasSolution, generateHint,              *)
(*                calculateDifficulty, generateQuestion,                   *)
(*                pregenerateAllQuestions).                                *)
(* SpecCalls    : calls of the lookup and computation functions on a       *)
(*                caller's numbers array and card list.                    *)
(* SpecSubmit   : validateExpression and the string evaluator of           *)
(*                utils/solutions on submitted expression strings.         *)
(* SpecServe    : GET /question/next and the per-device KV history         *)
(*                (KVManager) over time.                                   *)
(*                                                                         *)
(* JavaScript numbers are modelled as exact rationals <<n, d>> in lowest   *)
(* terms with d > 0; NaN is the pair <<0, 0>>.  Strings are modelled as    *)
(* sequences of one-character strings.                                     *)
(***************************************************************************)
EXTENDS Integers, Sequences, FiniteSets, TLC

VARIABLES
    cards,        \* the GameCard[] handed to calculateExpression
    valid,        \* local of calculateExpression: isValidCardSequence(cards)
    ast,          \* local of calculateExpression: parseExpression(flatCards)
    gameResult,   \* the GameResult returned by calculateExpression
    pc,           \* "idle" before, "returned" after calculateExpression(cards)
    question,     \* the QuestionData returned by generateQuestion
    hint,         \* the string returned by generateHint(question.numbers)
    questions,    \* local of pregenerateAllQuestions: the QuestionData[] built
    loop,         \* pregenerateAllQuestions: position and [a, b, c, d]
    callerNumbers, \* the caller's number[] handed to the functions
    call,         \* the last call: its name, its argument and what it returned
    catalogue,    \* hashToQuestionMap of the catalogue module
    expression,   \* the expression string of a submission
    validation,   \* what validateExpression(numbers, expression) returned
    evaluation,   \* how evaluateExpression(cleanExpression) ended
    kv,           \* the KV entry user_questions:<deviceId>
    now,          \* the current time in days
    handlers,     \* GET /question/next handlers in flight
    recorders,    \* addQuestionRecord calls in flight
    served,       \* the questions served to the device so far
    added,        \* the addQuestionRecord calls made one after the other
    expressionSlots,    \* GameBoard state: the seven slots
    availableNumbers,   \* GameBoard state: the number cards not placed
    availableOperators, \* GameBoard state: operator and parenthesis cards
    game,         \* Game state: isLoading, question, gameResult, and its history
    db,           \* D1: the rows of game_records and leaderboard
    submits,      \* POST /game/submit handlers in flight
    responses     \* the responses of the POST /game/submit handlers

vars == <<cards, valid, ast, gameResult, pc, question, hint, questions, loop,
          callerNumbers, call, catalogue, expression, validation, evaluation,
          kv, now, handlers, recorders, served, added,
          expressionSlots, availableNumbers, availableOperators, game,
          db, submits, responses>>

exprVars == <<cards, valid, ast, gameResult, pc>>
questionVars == <<question, hint, questions, loop>>
callVars == <<callerNumbers, call, catalogue>>
submitVars == <<expression, validation, evaluation>>
serveVars == <<kv, now, handlers, recorders, served, added>>
boardVars == <<expressionSlots, availableNumbers, availableOperators, game>>
dbVars == <<db, submits, responses>>

\* Marker for "not computed (yet)".
NoValue == [type |-> "none"]

(***************************************************************************)
(* Bounds                                                                  *)
(***************************************************************************)
\* Longest card list that AddCard builds.
MaxLen == 5

\* Largest number of cards that WrapPair groups into one parenthesis pair.
MaxGroup == 3

\* Values of the number cards that AddCard draws from.
NumVals == {3}

\* Values of the puzzle numbers that generateQuestion draws from, and
\* further draws that cover the numbers greater than 10.
PuzzleVals == {1, 3, 6, 8}

ExtraPuzzles == { <<1, 12, 12, 12>>, <<1, 1, 1, 12>>, <<12, 12, 12, 12>>,
                  <<11, 12, 13, 13>>, <<1, 11, 13, 13>>, <<13, 1, 11, 13>> }

PuzzleTuples == [1..4 -> PuzzleVals] \cup ExtraPuzzles

\* Longest expression string that TypeChar builds.
MaxExprLen == 4

\* Number of GET /question/next requests of the device.
MaxRequests == 3

\* Number of questions that the game screen fetches.
MaxLoads == 2

\* Number of drops that change the slots of one question.
MaxDrags == 4

\* The questions that GET /question/next returns to the game screen.
BoardPuzzles == { <<4, 6, 1, 1>> }

\* Copies of each operator card and of the parenthesis pair in the tray
\* (0, 1, 2 in the code), and the slots that the player drops on.
OperatorCopies == <<0>>

PairCopies == <<0>>

DropSlots == {0, 1, 2}

\* Number of addQuestionRecord calls made one after the other.
MaxCalls == 3

\* Number of POST /game/submit requests of the device.
MaxSubmits == 3

\* Last day that Tick reaches; time is counted in days.
MaxDay == 8

\* Largest number that the loops of pregenerateAllQuestions reach in the
\* model (13 in the code).
PregenMax == 6

(***************************************************************************)
(* JavaScript number arithmetic (exact rationals, NaN absorbing)           *)
(***************************************************************************)
NaN == <<0, 0>>

IsNaN(x) == x[2] = 0

Abs(n) == IF n < 0 THEN -n ELSE n

RECURSIVE GCD(_, _)
GCD(a, b) == IF b = 0 THEN a ELSE GCD(b, a % b)

\* The rational n/d (d # 0) in lowest terms with a positive denominator.
Norm(n, d) ==
    LET g == GCD(Abs(n), Abs(d))
        s == IF d < 0 THEN -1 ELSE 1
    IN  <<(s * n) \div g, (s * d) \div g>>

Rat(n) == <<n, 1>>

NumAdd(a, b) == IF IsNaN(a) \/ IsNaN(b) THEN NaN
                ELSE Norm(a[1] * b[2] + b[1] * a[2], a[2] * b[2])

NumSub(a, b) == IF IsNaN(a) \/ IsNaN(b) THEN NaN
                ELSE Norm(a[1] * b[2] - b[1] * a[2], a[2] * b[2])

NumMul(a, b) == IF IsNaN(a) \/ IsNaN(b) THEN NaN
                ELSE Norm(a[1] * b[1], a[2] * b[2])

\* a / b for b # 0 (b may be NaN).
NumDiv(a, b) == IF IsNaN(a) \/ IsNaN(b) THEN NaN
                ELSE Norm(a[1] * b[2], a[2] * b[1])

\* a < b; every comparison with NaN is false.
NumLess(a, b) == /\ ~IsNaN(a)
                 /\ ~IsNaN(b)
                 /\ a[1] * b[2] < b[1] * a[2]

NumAbs(a) == <<Abs(a[1]), a[2]>>

\* Math.abs(x - 24) < 0.001
Near24(x) == NumLess(NumAbs(NumSub(x, Rat(24))), <<1, 1000>>)

\* Math.floor of the rational n/d, d > 0.
FloorDiv(n, d) == IF n >= 0 THEN n \div d ELSE -((-n + d - 1) \div d)

\* Math.round(x): the integer nearest to x, ties towards +Infinity.
MathRound(x) == IF IsNaN(x) THEN NaN
                ELSE Rat(FloorDiv(2 * x[1] + x[2], 2 * x[2]))

\* Math.round(result * 100) / 100
RoundTo2(x) == NumDiv(MathRound(NumMul(x, Rat(100))), Rat(100))

(***************************************************************************)
(* Operator table                                                          *)
(***************************************************************************)
\* Variant of DivCalc that turns a division by zero into 0.
DivCalcZero(a, b) == IF b # Rat(0) THEN NumDiv(a, b) ELSE Rat(0)

DivCalc(a, b) == IF b # Rat(0) THEN NumDiv(a, b) ELSE NaN

OPERATORS ==
    [sym \in {"+", "-", "×", "÷"} |->
        [symbol |-> sym,
         precedence |-> IF sym \in {"+", "-"} THEN 1 ELSE 2]]

OperatorCalculate(op, a, b) ==
    CASE op = "+" -> NumAdd(a, b)
      [] op = "-" -> NumSub(a, b)
      [] op = "×" -> NumMul(a, b)
      [] op = "÷" -> DivCalc(a, b)

\* Object.keys(OPERATORS), in insertion order.
getOperators == <<"+", "-", "×", "÷">>

(***************************************************************************)
(* Cards                                                                   *)
(***************************************************************************)
NumberCard(n) == [type |-> "number", value |-> n, content |-> <<>>]

OperatorCard(op) == [type |-> "operator", value |-> op, content |-> <<>>]

\* The cards flattenCards emits for a parenthesis pair
\* (parenthesisType carries the same character as value).
ParenCard(p) == [type |-> "parenthesis", value |-> p, content |-> <<>>]

PairCard(content) == [type |-> "parenthesis-pair", value |-> "()", content |-> content]

\* card.value === s for a string s: a number card's numeric value is never
\* strictly equal to a string.
ValueIs(card, s) == card.type # "number" /\ card.value = s

RECURSIVE flattenCards(_)
flattenCards(cardList) ==
    IF Len(cardList) = 0 THEN <<>>
    ELSE LET card == Head(cardList)
         IN  (IF card.type = "parenthesis-pair"
              THEN <<ParenCard("(")>> \o flattenCards(card.content) \o <<ParenCard(")")>>
              ELSE <<card>>)
             \o flattenCards(Tail(cardList))

(***************************************************************************)
(* Sequence validator                                                      *)
(***************************************************************************)
\* The alternation loop of isValidCardSequence, from index i on.
RECURSIVE ScanSequence(_, _, _)
ScanSequence(flatCards, i, expectingNumber) ==
    IF i > Len(flatCards) THEN TRUE
    ELSE LET card == flatCards[i]
         IN  IF ValueIs(card, "(") THEN ScanSequence(flatCards, i + 1, TRUE)
             ELSE IF ValueIs(card, ")") THEN ScanSequence(flatCards, i + 1, FALSE)
             ELSE IF expectingNumber /\ card.type # "number" THEN FALSE
             ELSE IF ~expectingNumber /\ card.type # "operator" THEN FALSE
             ELSE ScanSequence(flatCards, i + 1, ~expectingNumber)

\* The bracket-matching loop shared by isValidCardSequence and
\* parseExpression, from index i on with the running balance.
RECURSIVE ScanBalance(_, _, _)
ScanBalance(flatCards, i, balance) ==
    IF i > Len(flatCards) THEN balance = 0
    ELSE LET card == flatCards[i]
         IN  IF ValueIs(card, "(") THEN ScanBalance(flatCards, i + 1, balance + 1)
             ELSE IF ValueIs(card, ")")
                  THEN IF balance - 1 < 0 THEN FALSE
                       ELSE ScanBalance(flatCards, i + 1, balance - 1)
             ELSE ScanBalance(flatCards, i + 1, balance)

\* Variant of isValidCardSequence without the check of the last card.
isValidCardSequenceNoLastCheck(cardList) ==
    IF Len(cardList) = 0 THEN FALSE
    ELSE LET flatCards == flattenCards(cardList)
         IN  IF Len(flatCards) = 0 THEN FALSE
             ELSE LET firstCard == flatCards[1]
                  IN  IF firstCard.type # "number" /\ ~ValueIs(firstCard, "(") THEN FALSE
                      ELSE IF ~ScanSequence(flatCards, 1, TRUE) THEN FALSE
                      ELSE ScanBalance(flatCards, 1, 0)

isValidCardSequence(cardList) ==
    IF Len(cardList) = 0 THEN FALSE
    ELSE LET flatCards == flattenCards(cardList)
         IN  IF Len(flatCards) = 0 THEN FALSE
             ELSE LET firstCard == flatCards[1]
                      lastCard  == flatCards[Len(flatCards)]
                  IN  IF firstCard.type # "number" /\ ~ValueIs(firstCard, "(") THEN FALSE
                      ELSE IF lastCard.type # "number" /\ ~ValueIs(lastCard, ")") THEN FALSE
                      ELSE IF ~ScanSequence(flatCards, 1, TRUE) THEN FALSE
                      ELSE ScanBalance(flatCards, 1, 0)

(***************************************************************************)
(* Expression parser                                                       *)
(***************************************************************************)
Top(stack) == stack[Len(stack)]

Pop(stack) == SubSeq(stack, 1, Len(stack) - 1)

\* Variant of PopOperators that pops only operators of strictly higher
\* precedence (equal precedence then associates to the right).
RECURSIVE PopOperatorsStrict(_, _)
PopOperatorsStrict(st, card) ==
    IF /\ Len(st.stack) > 0
       /\ Top(st.stack).type = "operator"
       /\ OPERATORS[Top(st.stack).value].precedence > OPERATORS[card.value].precedence
    THEN PopOperatorsStrict([tokens |-> Append(st.tokens, Top(st.stack)),
                             stack |-> Pop(st.stack)], card)
    ELSE st

\* The while loop of the operator branch: pops the operators on top of
\* the stack whose precedence is >= that of the incoming operator.
\* st = [tokens, stack].
RECURSIVE PopOperators(_, _)
PopOperators(st, card) ==
    IF /\ Len(st.stack) > 0
       /\ Top(st.stack).type = "operator"
       /\ OPERATORS[Top(st.stack).value].precedence >= OPERATORS[card.value].precedence
    THEN PopOperators([tokens |-> Append(st.tokens, Top(st.stack)),
                       stack |-> Pop(st.stack)], card)
    ELSE st

\* The while loop of the ')' branch: pops until a '(' is on top.
RECURSIVE PopToLeftParen(_)
PopToLeftParen(st) ==
    IF /\ Len(st.stack) > 0
       /\ ~(Top(st.stack).type = "parenthesis" /\ Top(st.stack).value = "(")
    THEN PopToLeftParen([tokens |-> Append(st.tokens, Top(st.stack)),
                         stack |-> Pop(st.stack)])
    ELSE st

\* The final while loop: pops everything left on the stack.
RECURSIVE PopAll(_)
PopAll(st) ==
    IF Len(st.stack) > 0
    THEN PopAll([tokens |-> Append(st.tokens, Top(st.stack)), stack |-> Pop(st.stack)])
    ELSE st

\* One iteration of the for loop of tokenizeExpression.
TokenizeCard(st, card) ==
    IF card.type = "number" THEN [st EXCEPT !.tokens = Append(@, card)]
    ELSE IF card.type = "operator"
         THEN LET popped == PopOperators(st, card)
              IN  [popped EXCEPT !.stack = Append(@, card)]
    ELSE IF card.type = "parenthesis" /\ card.value = "("
         THEN [st EXCEPT !.stack = Append(@, card)]
    ELSE IF card.type = "parenthesis" /\ card.value = ")"
         THEN LET popped == PopToLeftParen(st)
              IN  IF Len(popped.stack) > 0 THEN [popped EXCEPT !.stack = Pop(@)]
                  ELSE popped
    ELSE st

RECURSIVE TokenizeFrom(_, _, _)
TokenizeFrom(cardList, i, st) ==
    IF i > Len(cardList) THEN st
    ELSE TokenizeFrom(cardList, i + 1, TokenizeCard(st, cardList[i]))

tokenizeExpression(cardList) ==
    PopAll(TokenizeFrom(cardList, 1, [tokens |-> <<>>, stack |-> <<>>])).tokens

\* AST nodes; NullNode is the null that a parse failure returns.
NullNode == [type |-> "null"]

NumberNode(v) == [type |-> "number", value |-> v]

OperationNode(op, l, r) == [type |-> "operation", operator |-> op, left |-> l, right |-> r]

\* The for loop of buildAST from index i on; "failed" records the early
\* return null.
RECURSIVE BuildFrom(_, _, _)
BuildFrom(tokens, i, stack) ==
    IF i > Len(tokens) THEN [failed |-> FALSE, stack |-> stack]
    ELSE LET token == tokens[i]
         IN  IF token.type = "number"
             THEN BuildFrom(tokens, i + 1, Append(stack, NumberNode(token.value)))
             ELSE IF token.type = "operator"
             THEN IF Len(stack) < 2 THEN [failed |-> TRUE, stack |-> stack]
                  ELSE LET right == stack[Len(stack)]
                           left  == stack[Len(stack) - 1]
                       IN  BuildFrom(tokens, i + 1,
                                     Append(SubSeq(stack, 1, Len(stack) - 2),
                                            OperationNode(token.value, left, right)))
             ELSE BuildFrom(tokens, i + 1, stack)

buildAST(tokens) ==
    LET r == BuildFrom(tokens, 1, <<>>)
    IN  IF r.failed THEN NullNode
        ELSE IF Len(r.stack) = 1 THEN r.stack[1] ELSE NullNode

parseExpression(cardList) ==
    IF ~ScanBalance(cardList, 1, 0) THEN NullNode
    ELSE buildAST(tokenizeExpression(cardList))

(***************************************************************************)
(* AST evaluator and renderer                                              *)
(***************************************************************************)
RECURSIVE evaluateAST(_)
evaluateAST(node) ==
    IF node.type = "null" THEN NaN
    ELSE IF node.type = "number" THEN Rat(node.value)
    ELSE IF node.type = "operation"
         THEN OperatorCalculate(node.operator, evaluateAST(node.left), evaluateAST(node.right))
    ELSE NaN

\* Number.prototype.toString for a non-negative integer, as characters.
RECURSIVE NumToString(_)
NumToString(n) ==
    LET Digit(d) == <<"0", "1", "2", "3", "4", "5", "6", "7", "8", "9">>[d + 1]
    IN  IF n < 10 THEN <<Digit(n)>>
        ELSE NumToString(n \div 10) \o <<Digit(n % 10)>>

NeedsLeftParens(node) ==
    /\ node.left.type = "operation"
    /\ OPERATORS[node.left.operator].precedence < OPERATORS[node.operator].precedence

NeedsRightParens(node) ==
    /\ node.right.type = "operation"
    /\ \/ OPERATORS[node.right.operator].precedence < OPERATORS[node.operator].precedence
       \/ /\ OPERATORS[node.right.operator].precedence = OPERATORS[node.operator].precedence
          /\ node.operator = "-"

RECURSIVE generateExpressionString(_)
generateExpressionString(node) ==
    IF node.type = "null" THEN <<>>
    ELSE IF node.type = "number" THEN NumToString(node.value)
    ELSE IF node.type = "operation"
         THEN LET leftExpr  == generateExpressionString(node.left)
                  rightExpr == generateExpressionString(node.right)
                  leftStr   == IF NeedsLeftParens(node)
                               THEN <<"(">> \o leftExpr \o <<")">> ELSE leftExpr
                  rightStr  == IF NeedsRightParens(node)
                               THEN <<"(">> \o rightExpr \o <<")">> ELSE rightExpr
              IN  leftStr \o <<" ", node.operator, " ">> \o rightStr
    ELSE <<>>

(***************************************************************************)
(* Expression calculator                                                   *)
(***************************************************************************)
\* The callback of flatCards.map(...) in calculateExpression.
CardText(card) ==
    IF card.type = "number" THEN NumToString(card.value)
    ELSE IF card.type = "operator" THEN <<card.value>>
    ELSE IF card.type = "parenthesis" THEN <<card.value>>
    ELSE <<>>

\* Array.prototype.join(' ') of the mapped cards, from index i on.
RECURSIVE JoinCards(_, _)
JoinCards(flatCards, i) ==
    IF i > Len(flatCards) THEN <<>>
    ELSE IF i = Len(flatCards) THEN CardText(flatCards[i])
    ELSE CardText(flatCards[i]) \o <<" ">> \o JoinCards(flatCards, i + 1)

\* The fixed prefix of the single step line (a Chinese label followed by
\* ": " in the source).
StepPrefix == <<"steps", ":", " ">>

\* steps is <<>> when the returned object has no steps field.
FailedResult == [result |-> NaN, expression |-> <<>>, isCorrect |-> FALSE, steps |-> <<>>]

\* Variant of calculateExpression without the check of the parser's result.
calculateExpressionNoParseCheck(cardList) ==
    IF Len(cardList) = 0
    THEN [result |-> Rat(0), expression |-> <<>>, isCorrect |-> FALSE, steps |-> <<>>]
    ELSE IF ~isValidCardSequence(cardList) THEN FailedResult
    ELSE LET flatCards == flattenCards(cardList)
             tree      == parseExpression(flatCards)
             result    == evaluateAST(tree)
         IN  [result     |-> RoundTo2(result),
              expression |-> JoinCards(flatCards, 1),
              isCorrect  |-> Near24(result),
              steps      |-> <<StepPrefix \o generateExpressionString(tree)>>]

calculateExpression(cardList) ==
    IF Len(cardList) = 0
    THEN [result |-> Rat(0), expression |-> <<>>, isCorrect |-> FALSE, steps |-> <<>>]
    ELSE IF ~isValidCardSequence(cardList) THEN FailedResult
    ELSE LET flatCards == flattenCards(cardList)
             tree      == parseExpression(flatCards)
         IN  IF tree = NullNode THEN FailedResult
             ELSE LET result == evaluateAST(tree)
                  IN  [result     |-> RoundTo2(result),
                       expression |-> JoinCards(flatCards, 1),
                       isCorrect  |-> Near24(result),
                       steps      |-> <<StepPrefix \o generateExpressionString(tree)>>]

(***************************************************************************)
(* Combinatorics engine                                                    *)
(***************************************************************************)
\* numbers.slice(0, i).concat(numbers.slice(i + 1)) for the 1-based index i.
RemoveAt(numbers, i) == SubSeq(numbers, 1, i - 1) \o SubSeq(numbers, i + 1, Len(numbers))

\* [current, ...perm] for every perm of a list of permutations.
PrependAll(current, perms) == [k \in 1..Len(perms) |-> <<current>> \o perms[k]]

RECURSIVE getPermutations(_)
\* The outer for loop of getPermutations from index i on.
RECURSIVE PermutationsFrom(_, _)
PermutationsFrom(numbers, i) ==
    IF i > Len(numbers) THEN <<>>
    ELSE PrependAll(numbers[i], getPermutations(RemoveAt(numbers, i)))
         \o PermutationsFrom(numbers, i + 1)

\* Variant of getPermutations that leaves the first number in its place.
getPermutationsFirstFixed(numbers) ==
    IF Len(numbers) <= 1 THEN <<numbers>>
    ELSE PrependAll(numbers[1], getPermutations(RemoveAt(numbers, 1)))

getPermutations(numbers) ==
    IF Len(numbers) <= 1 THEN <<numbers>>
    ELSE PermutationsFrom(numbers, 1)

\* The inner function generate(current) of generateOperatorCombinations;
\* the for loop over the operators from index i on.
RECURSIVE GenerateCombinations(_, _, _)
GenerateCombinations(current, length, i) ==
    IF Len(current) = length THEN <<current>>
    ELSE IF i > Len(getOperators) THEN <<>>
    ELSE GenerateCombinations(Append(current, getOperators[i]), length, 1)
         \o GenerateCombinations(current, length, i + 1)

generateOperatorCombinations(length) == GenerateCombinations(<<>>, length, 1)

\* The loop of calculateFromArray from operator index i on.
RECURSIVE FoldFrom(_, _, _, _)
FoldFrom(numbers, operators, i, result) ==
    IF i > Len(operators) THEN result
    ELSE LET next == OperatorCalculate(operators[i], result, Rat(numbers[i + 1]))
         IN  IF IsNaN(next) THEN NaN
             ELSE FoldFrom(numbers, operators, i + 1, next)

calculateFromArray(numbers, operators) ==
    IF Len(numbers) # Len(operators) + 1 THEN NaN
    ELSE FoldFrom(numbers, operators, 1, Rat(numbers[1]))

\* The template string `n0 op0 n1 op1 n2 op2 n3`.
SolutionString(numPerm, opComb) ==
    NumToString(numPerm[1]) \o <<" ", opComb[1], " ">> \o
    NumToString(numPerm[2]) \o <<" ", opComb[2], " ">> \o
    NumToString(numPerm[3]) \o <<" ", opComb[3], " ">> \o
    NumToString(numPerm[4])

\* The solutions the inner loop finds for one ordering, in loop order.
SolutionsOfPermutation(numPerm, operatorCombinations) ==
    LET solving == SelectSeq(operatorCombinations,
                             LAMBDA opComb : Near24(calculateFromArray(numPerm, opComb)))
    IN  [k \in 1..Len(solving) |-> SolutionString(numPerm, solving[k])]

Range(seq) == {seq[k] : k \in 1..Len(seq)}

\* The Set<string> that the two nested loops of countSolutions fill.
SolutionSet(numberPermutations, operatorCombinations) ==
    UNION {Range(SolutionsOfPermutation(numberPermutations[i], operatorCombinations)) :
             i \in 1..Len(numberPermutations)}

\* The solutions of all orderings as a list, repetitions kept.
RECURSIVE SolutionList(_, _, _)
SolutionList(numberPermutations, operatorCombinations, i) ==
    IF i > Len(numberPermutations) THEN <<>>
    ELSE SolutionsOfPermutation(numberPermutations[i], operatorCombinations)
         \o SolutionList(numberPermutations, operatorCombinations, i + 1)

\* Variant of countSolutions that counts every solving combination, equal
\* renderings included.
countSolutionsNoDedup(numbers) ==
    Len(SolutionList(getPermutations(numbers), generateOperatorCombinations(3), 1))

countSolutions(numbers) ==
    Cardinality(SolutionSet(getPermutations(numbers), generateOperatorCombinations(3)))

hasSolution(numbers) == countSolutions(numbers) > 0

\* The solutions array of generateHint: the outer loop from ordering i on,
\* left at the first ordering that has a solution.
RECURSIVE HintSolutions(_, _, _)
HintSolutions(numberPermutations, operatorCombinations, i) ==
    IF i > Len(numberPermutations) THEN <<>>
    ELSE LET solutions == SolutionsOfPermutation(numberPermutations[i],
                                                 operatorCombinations)
         IN  IF Len(solutions) > 0 THEN solutions
             ELSE HintSolutions(numberPermutations, operatorCombinations, i + 1)

\* String.prototype.split(' '): the pieces between the blanks.
RECURSIVE SplitBlank(_, _, _)
SplitBlank(str, i, piece) ==
    IF i > Len(str) THEN <<piece>>
    ELSE IF str[i] = " " THEN <<piece>> \o SplitBlank(str, i + 1, <<>>)
    ELSE SplitBlank(str, i + 1, Append(piece, str[i]))

\* Array.prototype.join(sep) of a list of strings.
RECURSIVE JoinWith(_, _)
JoinWith(parts, sep) ==
    IF Len(parts) = 0 THEN <<>>
    ELSE IF Len(parts) = 1 THEN parts[1]
    ELSE parts[1] \o sep \o JoinWith(Tail(parts), sep)

\* The fallback message of generateHint (a Chinese sentence in the source).
NoSolutionHint == <<"no-solution-message">>

\* The prefix of a real hint (a Chinese "try:" in the source).
HintPrefix == <<"try", ":">>

HintSuffix == <<" ", ".", ".", ".", " ", "=", " ", "2", "4">>

\* Variant of generateHint that takes the last solution of the ordering.
generateHintLastSolution(numbers) ==
    LET solutions == HintSolutions(getPermutations(numbers),
                                   generateOperatorCombinations(3), 1)
    IN  IF Len(solutions) = 0 THEN NoSolutionHint
        ELSE LET solution == solutions[Len(solutions)]
                 parts == SplitBlank(solution, 1, <<>>)
                 shown == JoinWith(SubSeq(parts, 1, 3), <<" ">>) \o HintSuffix
             IN  HintPrefix \o shown

generateHint(numbers) ==
    LET solutions == HintSolutions(getPermutations(numbers),
                                   generateOperatorCombinations(3), 1)
    IN  IF Len(solutions) = 0 THEN NoSolutionHint
        ELSE LET solution == solutions[1]
                 parts == SplitBlank(solution, 1, <<>>)
                 shown == JoinWith(SubSeq(parts, 1, 3), <<" ">>) \o HintSuffix
             IN  HintPrefix \o shown

(***************************************************************************)
(* Question generator                                                      *)
(***************************************************************************)
\* numbers.filter(n => n > 10).length
LargeNumbers(numbers) == Cardinality({k \in 1..Len(numbers) : numbers[k] > 10})

\* new Set(numbers).size
UniqueNumbers(numbers) == Cardinality(Range(numbers))

\* Math.max(1, Math.min(5, difficulty))
\* Variant of Clamp without the lower limit.
ClampUpperOnly(difficulty) ==
    IF NumLess(Rat(5), difficulty) THEN Rat(5) ELSE difficulty

Clamp(difficulty) ==
    LET capped == IF NumLess(Rat(5), difficulty) THEN Rat(5) ELSE difficulty
    IN  IF NumLess(capped, Rat(1)) THEN Rat(1) ELSE capped

\* Variant of calculateDifficulty whose last threshold is "five or more".
calculateDifficultyFiveOrMore(numbers) ==
    LET base      == NumAdd(Rat(1), NumMul(Rat(LargeNumbers(numbers)), <<1, 2>>))
        unique    == UniqueNumbers(numbers)
        repeated  == IF unique < 4
                     THEN NumAdd(base, NumMul(Rat(4 - unique), <<3, 10>>))
                     ELSE base
        solutions == countSolutions(numbers)
        adjusted  == IF solutions = 0 THEN Rat(5)
                     ELSE IF solutions = 1 THEN NumAdd(repeated, Rat(1))
                     ELSE IF solutions >= 5 THEN NumSub(repeated, <<1, 2>>)
                     ELSE repeated
    IN  Clamp(adjusted)

\* Variant of calculateDifficulty that adds 1 for each number above 10.
calculateDifficultyLargeWeightOne(numbers) ==
    LET base      == NumAdd(Rat(1), NumMul(Rat(LargeNumbers(numbers)), Rat(1)))
        unique    == UniqueNumbers(numbers)
        repeated  == IF unique < 4
                     THEN NumAdd(base, NumMul(Rat(4 - unique), <<3, 10>>))
                     ELSE base
        solutions == countSolutions(numbers)
        adjusted  == IF solutions = 0 THEN Rat(5)
                     ELSE IF solutions = 1 THEN NumAdd(repeated, Rat(1))
                     ELSE IF solutions > 5 THEN NumSub(repeated, <<1, 2>>)
                     ELSE repeated
    IN  Clamp(adjusted)

calculateDifficulty(numbers) ==
    LET base      == NumAdd(Rat(1), NumMul(Rat(LargeNumbers(numbers)), <<1, 2>>))
        unique    == UniqueNumbers(numbers)
        repeated  == IF unique < 4
                     THEN NumAdd(base, NumMul(Rat(4 - unique), <<3, 10>>))
                     ELSE base
        solutions == countSolutions(numbers)
        adjusted  == IF solutions = 0 THEN Rat(5)
                     ELSE IF solutions = 1 THEN NumAdd(repeated, Rat(1))
                     ELSE IF solutions > 5 THEN NumSub(repeated, <<1, 2>>)
                     ELSE repeated
    IN  Clamp(adjusted)

\* [...numbers].sort((a, b) => a - b): insertion into a sorted list.
RECURSIVE InsertSorted(_, _)
InsertSorted(sorted, n) ==
    IF Len(sorted) = 0 THEN <<n>>
    ELSE IF n < Head(sorted) THEN <<n>> \o sorted
    ELSE <<Head(sorted)>> \o InsertSorted(Tail(sorted), n)

RECURSIVE SortAscending(_)
SortAscending(numbers) ==
    IF Len(numbers) = 0 THEN <<>>
    ELSE InsertSorted(SortAscending(SubSeq(numbers, 1, Len(numbers) - 1)),
                      numbers[Len(numbers)])

\* Variant of generateQuestionHash that joins the numbers as given.
generateQuestionHashUnsorted(numbers) ==
    JoinWith([k \in 1..Len(numbers) |-> NumToString(numbers[k])], <<",">>)

generateQuestionHash(numbers) ==
    LET sortedNumbers == SortAscending(numbers)
    IN  JoinWith([k \in 1..Len(sortedNumbers) |-> NumToString(sortedNumbers[k])], <<",">>)

\* The QuestionData that generateQuestion builds for the drawn numbers.
QuestionFor(numbers) ==
    [type         |-> "question",
     numbers      |-> numbers,
     difficulty   |-> calculateDifficulty(numbers),
     solutionCount |-> countSolutions(numbers),
     hash         |-> generateQuestionHash(numbers)]

\* validateQuestion(question)
validateQuestion(q) ==
    /\ Len(q.numbers) = 4
    /\ \A k \in 1..Len(q.numbers) : q.numbers[k] >= 1 /\ q.numbers[k] <= 13
    /\ ~NumLess(q.difficulty, Rat(1))
    /\ ~NumLess(Rat(5), q.difficulty)
    /\ q.solutionCount >= 0
    /\ q.hash = generateQuestionHash(q.numbers)

\* Variant of the loop body that keeps every tuple.
PregenerateBodyUnfiltered(acc, numbers) ==
    Append(acc, QuestionFor(numbers))

\* Body of the innermost loop of pregenerateAllQuestions.
PregenerateBody(acc, numbers) ==
    IF hasSolution(numbers) THEN Append(acc, QuestionFor(numbers)) ELSE acc

\* The loop counters after d++ and the loop conditions, <<>> after the
\* last tuple.
NextTuple(t) ==
    IF t[4] < PregenMax THEN <<t[1], t[2], t[3], t[4] + 1>>
    ELSE IF t[3] < PregenMax THEN <<t[1], t[2], t[3] + 1, t[3] + 1>>
    ELSE IF t[2] < PregenMax THEN <<t[1], t[2] + 1, t[2] + 1, t[2] + 1>>
    ELSE IF t[1] < PregenMax THEN <<t[1] + 1, t[1] + 1, t[1] + 1, t[1] + 1>>
    ELSE <<>>

(***************************************************************************)
(* Spec: card lists and calculateExpression                                *)
(***************************************************************************)
\* Number of cards in a card list, nested content included.
RECURSIVE CardCount(_)
CardCount(cardList) ==
    IF Len(cardList) = 0 THEN 0
    ELSE 1 + CardCount(Head(cardList).content) + CardCount(Tail(cardList))

N(n) == NumberCard(n)

O(op) == OperatorCard(op)

\* Card lists of the documented scenarios and of the boundary cases.
Scenarios ==
    { <<>>,
      \* (1 + 2 + 3) × 4
      << PairCard(<<N(1), O("+"), N(2), O("+"), N(3)>>), O("×"), N(4) >>,
      \* 8 ÷ (3 - 8 ÷ 3)
      << N(8), O("÷"), PairCard(<<N(3), O("-"), N(8), O("÷"), N(3)>>) >>,
      \* 8 ÷ (4 ÷ 2)
      << N(8), O("÷"), PairCard(<<N(4), O("÷"), N(2)>>) >>,
      \* 8 ÷ (4 × 2)
      << N(8), O("÷"), PairCard(<<N(4), O("×"), N(2)>>) >>,
      \* 8 ÷ 0
      << N(8), O("÷"), N(0) >>,
      \* 8 - (4 - 2)
      << N(8), O("-"), PairCard(<<N(4), O("-"), N(2)>>) >>,
      \* 3 + 8 ÷ (3 - 3) × 8
      << N(3), O("+"), N(8), O("÷"), PairCard(<<N(3), O("-"), N(3)>>), O("×"), N(8) >>,
      \* 13 + 11 - 1 ÷ 13 ÷ 13 ÷ 2
      << N(13), O("+"), N(11), O("-"), N(1), O("÷"), N(13), O("÷"), N(13), O("÷"), N(2) >>,
      \* 6 + 6 + 6 + 6
      << N(6), O("+"), N(6), O("+"), N(6), O("+"), N(6) >> }

\* The cards AddCard draws from.
CardAlphabet ==
    {NumberCard(n) : n \in NumVals}
    \cup {OperatorCard(getOperators[i]) : i \in 1..Len(getOperators)}
    \cup {ParenCard("("), ParenCard(")")}

\* The variables of the parts that a specification leaves alone.
IdleExpr ==
    /\ cards = <<>>
    /\ valid = FALSE
    /\ ast = NullNode
    /\ gameResult = FailedResult
    /\ pc = "idle"

IdleQuestion ==
    /\ question = NoValue
    /\ hint = <<>>
    /\ questions = <<>>
    /\ loop = [pc |-> "idle", numbers |-> <<>>]

IdleCalls ==
    /\ callerNumbers = <<>>
    /\ call = NoValue
    /\ catalogue = <<>>

IdleSubmit ==
    /\ expression = <<>>
    /\ validation = NoValue
    /\ evaluation = NoValue

IdleServe ==
    /\ kv = NoValue
    /\ now = 0
    /\ handlers = {}
    /\ recorders = {}
    /\ served = <<>>
    /\ added = <<>>

IdleBoard ==
    /\ expressionSlots = <<>>
    /\ availableNumbers = <<>>
    /\ availableOperators = <<>>
    /\ game = NoValue

IdleDb ==
    /\ db = NoValue
    /\ submits = {}
    /\ responses = <<>>

Init ==
    /\ cards \in Scenarios
    /\ valid = FALSE
    /\ ast = NullNode
    /\ gameResult = FailedResult
    /\ pc = "idle"
    /\ IdleQuestion
    /\ IdleCalls
    /\ IdleSubmit
    /\ IdleServe
    /\ IdleBoard
    /\ IdleDb

\* A card is placed at the end of the expression.
AddCard(card) ==
    /\ CardCount(cards) < MaxLen
    /\ cards' = Append(cards, card)
    /\ valid' = FALSE
    /\ ast' = NullNode
    /\ gameResult' = FailedResult
    /\ pc' = "idle"
    /\ UNCHANGED <<questionVars, callVars, submitVars, serveVars, boardVars, dbVars>>

\* The last k cards are grouped into a parenthesis-pair card (k = 0: an
\* empty pair as created for the card tray).
WrapPair(k) ==
    /\ CardCount(cards) < MaxLen
    /\ k <= Len(cards)
    /\ cards' = Append(SubSeq(cards, 1, Len(cards) - k),
                       PairCard(SubSeq(cards, Len(cards) - k + 1, Len(cards))))
    /\ valid' = FALSE
    /\ ast' = NullNode
    /\ gameResult' = FailedResult
    /\ pc' = "idle"
    /\ UNCHANGED <<questionVars, callVars, submitVars, serveVars, boardVars, dbVars>>

\* calculateExpression(cards) runs to its return; valid and ast keep the
\* values of its locals (FALSE / null when the code never computed them).
Calculate ==
    /\ pc = "idle"
    /\ valid' = (Len(cards) > 0 /\ isValidCardSequence(cards))
    /\ ast' = IF Len(cards) > 0 /\ isValidCardSequence(cards)
              THEN parseExpression(flattenCards(cards)) ELSE NullNode
    /\ gameResult' = calculateExpression(cards)
    /\ pc' = "returned"
    /\ UNCHANGED <<cards, questionVars, callVars, submitVars, serveVars, boardVars, dbVars>>

\* The expression is cleared.
ResetExpression ==
    /\ Len(cards) > 0
    /\ cards' = <<>>
    /\ valid' = FALSE
    /\ ast' = NullNode
    /\ gameResult' = FailedResult
    /\ pc' = "idle"
    /\ UNCHANGED <<questionVars, callVars, submitVars, serveVars, boardVars, dbVars>>

Next ==
    \/ \E card \in CardAlphabet : AddCard(card)
    \/ \E k \in 0..MaxGroup : WrapPair(k)
    \/ Calculate
    \/ ResetExpression

Spec == Init /\ [][Next]_vars

(***************************************************************************)
(* SpecQuestion: question generation and hints                             *)
(***************************************************************************)
InitQuestion ==
    /\ IdleExpr
    /\ IdleQuestion
    /\ IdleCalls
    /\ IdleSubmit
    /\ IdleServe
    /\ IdleBoard
    /\ IdleDb

\* generateQuestion(): four numbers are drawn and the record is computed.
generateQuestion ==
    /\ question = NoValue
    /\ loop.pc = "idle"
    /\ \E drawn \in PuzzleTuples : question' = QuestionFor(drawn)
    /\ hint' = <<>>
    /\ UNCHANGED <<questions, loop, exprVars, callVars, submitVars, serveVars, boardVars, dbVars>>

\* generateHint(question.numbers) is called for the current question.
RequestHint ==
    /\ question # NoValue
    /\ hint = <<>>
    /\ hint' = generateHint(question.numbers)
    /\ UNCHANGED <<question, questions, loop, exprVars, callVars, submitVars, serveVars, boardVars, dbVars>>

\* The question is dropped before the next one is generated.
NextQuestion ==
    /\ question # NoValue
    /\ question' = NoValue
    /\ hint' = <<>>
    /\ UNCHANGED <<questions, loop, exprVars, callVars, submitVars, serveVars, boardVars, dbVars>>

\* pregenerateAllQuestions() is entered: the list is empty, a = b = c = d = 1.
StartPregenerate ==
    /\ loop.pc = "idle"
    /\ question = NoValue
    /\ questions' = <<>>
    /\ loop' = [pc |-> "loop", numbers |-> <<1, 1, 1, 1>>]
    /\ UNCHANGED <<question, hint, exprVars, callVars, submitVars, serveVars, boardVars, dbVars>>

\* One pass of the innermost loop, for numbers = [a, b, c, d].
PregenerateStep ==
    /\ loop.pc = "loop"
    /\ questions' = PregenerateBody(questions, loop.numbers)
    /\ loop' = IF NextTuple(loop.numbers) = <<>>
               THEN [pc |-> "done", numbers |-> <<>>]
               ELSE [pc |-> "loop", numbers |-> NextTuple(loop.numbers)]
    /\ UNCHANGED <<question, hint, exprVars, callVars, submitVars, serveVars, boardVars, dbVars>>

NextQ ==
    \/ generateQuestion
    \/ RequestHint
    \/ NextQuestion
    \/ StartPregenerate
    \/ PregenerateStep

SpecQuestion == InitQuestion /\ [][NextQ]_vars

(***************************************************************************)
(* Properties of the expression engine (checked under Spec)                *)
(***************************************************************************)
flat == flattenCards(cards)

IsNumberToken(tok) == tok.type = "number"

IsOperatorToken(tok) == tok.type = "operator"

IsParenToken(tok, p) == tok.type = "parenthesis" /\ tok.value = p

\* Standard arithmetic on rationals; a division by zero has no value (NaN).
StdApply(op, a, b) ==
    IF IsNaN(a) \/ IsNaN(b) THEN NaN
    ELSE IF op = "+" THEN Norm(a[1] * b[2] + b[1] * a[2], a[2] * b[2])
    ELSE IF op = "-" THEN Norm(a[1] * b[2] - b[1] * a[2], a[2] * b[2])
    ELSE IF op = "×" THEN Norm(a[1] * b[1], a[2] * b[2])
    ELSE IF b[1] = 0 THEN NaN
    ELSE Norm(a[1] * b[2], a[2] * b[1])

StdFail == [ok |-> FALSE, val |-> NaN, next |-> 0]

\* Reference reading of an infix token sequence by the usual grammar
\*   Expr := Term (('+'|'-') Term)*,  Term := Factor (('×'|'÷') Factor)*,
\*   Factor := number | '(' Expr ')'
\* with left-to-right accumulation inside Expr and Term.
RECURSIVE StdExpr(_, _)
RECURSIVE StdExprRest(_, _, _)
RECURSIVE StdTerm(_, _)
RECURSIVE StdTermRest(_, _, _)
RECURSIVE StdFactor(_, _)
StdFactor(toks, i) ==
    IF i > Len(toks) THEN StdFail
    ELSE IF IsNumberToken(toks[i])
         THEN [ok |-> TRUE, val |-> Rat(toks[i].value), next |-> i + 1]
    ELSE IF IsParenToken(toks[i], "(")
         THEN LET e == StdExpr(toks, i + 1)
              IN  IF e.ok /\ e.next <= Len(toks) /\ IsParenToken(toks[e.next], ")")
                  THEN [e EXCEPT !.next = @ + 1]
                  ELSE StdFail
    ELSE StdFail

StdTermRest(toks, acc, i) ==
    IF i <= Len(toks) /\ IsOperatorToken(toks[i]) /\ toks[i].value \in {"×", "÷"}
    THEN LET f == StdFactor(toks, i + 1)
         IN  IF f.ok THEN StdTermRest(toks, StdApply(toks[i].value, acc, f.val), f.next)
             ELSE StdFail
    ELSE [ok |-> TRUE, val |-> acc, next |-> i]

StdTerm(toks, i) ==
    LET f == StdFactor(toks, i)
    IN  IF f.ok THEN StdTermRest(toks, f.val, f.next) ELSE StdFail

StdExprRest(toks, acc, i) ==
    IF i <= Len(toks) /\ IsOperatorToken(toks[i]) /\ toks[i].value \in {"+", "-"}
    THEN LET t == StdTerm(toks, i + 1)
         IN  IF t.ok THEN StdExprRest(toks, StdApply(toks[i].value, acc, t.val), t.next)
             ELSE StdFail
    ELSE [ok |-> TRUE, val |-> acc, next |-> i]

StdExpr(toks, i) ==
    LET t == StdTerm(toks, i)
    IN  IF t.ok THEN StdExprRest(toks, t.val, t.next) ELSE StdFail

WellFormed(toks) ==
    LET e == StdExpr(toks, 1)
    IN  e.ok /\ e.next = Len(toks) + 1

StdValue(toks) == StdExpr(toks, 1).val

\* C1: for every well-formed infix card sequence, the value of the parsed
\* AST is the value of standard arithmetic (precedence, left
\* associativity, parentheses).
ParseEvaluatesStandardArithmetic ==
    (pc = "returned" /\ WellFormed(flat))
        => /\ valid
           /\ ast # NullNode
           /\ evaluateAST(ast) = StdValue(flat)

\* 8 ÷ (3 - 8 ÷ 3) has been evaluated to 24.
ParseEvaluatesStandardArithmeticWitness ==
    /\ pc = "returned"
    /\ cards = << N(8), O("÷"), PairCard(<<N(3), O("-"), N(8), O("÷"), N(3)>>) >>
    /\ evaluateAST(ast) = Rat(24)
    /\ gameResult.isCorrect

\* The five rules of the sequence validator, each stated on the flattened
\* sequence as a whole.
RuleNonEmpty(toks) == Len(toks) > 0

RuleFirst(toks) == Len(toks) > 0 => (IsNumberToken(toks[1]) \/ IsParenToken(toks[1], "("))

RuleLast(toks) ==
    Len(toks) > 0 => (IsNumberToken(toks[Len(toks)]) \/ IsParenToken(toks[Len(toks)], ")"))

\* The expectation in force when token i is read: TRUE for "operand".
RECURSIVE ExpectsOperand(_, _)
ExpectsOperand(toks, i) ==
    IF i = 1 THEN TRUE
    ELSE IF IsParenToken(toks[i - 1], "(") THEN TRUE
    ELSE IF IsParenToken(toks[i - 1], ")") THEN FALSE
    ELSE ~ExpectsOperand(toks, i - 1)

RuleAlternation(toks) ==
    \A i \in 1..Len(toks) :
        \/ IsParenToken(toks[i], "(")
        \/ IsParenToken(toks[i], ")")
        \/ IF ExpectsOperand(toks, i) THEN IsNumberToken(toks[i])
           ELSE IsOperatorToken(toks[i])

ParenBalance(toks, k) ==
    Cardinality({i \in 1..k : IsParenToken(toks[i], "(")})
    - Cardinality({i \in 1..k : IsParenToken(toks[i], ")")})

RuleBalance(toks) ==
    /\ \A k \in 1..Len(toks) : ParenBalance(toks, k) >= 0
    /\ ParenBalance(toks, Len(toks)) = 0

AllFiveRules(toks) ==
    /\ RuleNonEmpty(toks)
    /\ RuleFirst(toks)
    /\ RuleLast(toks)
    /\ RuleAlternation(toks)
    /\ RuleBalance(toks)

\* C2: isValidCardSequence accepts a card list exactly when its flattened
\* form satisfies the five rules together.
ValidatorIsFiveRules ==
    /\ isValidCardSequence(cards) <=> AllFiveRules(flat)
    /\ (pc = "returned" /\ Len(cards) > 0) => (valid <=> AllFiveRules(flat))

\* A sequence with a group, (3 - 8), has been validated and accepted.
ValidatorIsFiveRulesWitness ==
    /\ pc = "returned"
    /\ valid
    /\ cards = << PairCard(<<N(3), O("-"), N(3)>>) >>

\* C3 (as stated): every sequence the validator accepts parses to a
\* non-null AST.
ValidatedSequenceParses ==
    (pc = "returned" /\ valid) => ast # NullNode

\* parseInt of a run of digit characters.
DigitValue(ch) ==
    CASE ch = "0" -> 0 [] ch = "1" -> 1 [] ch = "2" -> 2 [] ch = "3" -> 3
      [] ch = "4" -> 4 [] ch = "5" -> 5 [] ch = "6" -> 6 [] ch = "7" -> 7
      [] ch = "8" -> 8 [] ch = "9" -> 9

IsDigit(ch) == ch \in {"0", "1", "2", "3", "4", "5", "6", "7", "8", "9"}

\* Reads a rendered infix string back into number, operator and parenthesis
\* tokens: blanks separate, digit runs form one number.
RECURSIVE LexInfix(_, _, _)
LexInfix(str, i, pending) ==
    LET flush == IF pending = -1 THEN <<>> ELSE <<NumberCard(pending)>>
    IN  IF i > Len(str) THEN flush
        ELSE IF IsDigit(str[i])
             THEN LexInfix(str, i + 1,
                           (IF pending = -1 THEN 0 ELSE pending * 10) + DigitValue(str[i]))
        ELSE IF str[i] = " " THEN flush \o LexInfix(str, i + 1, -1)
        ELSE IF str[i] \in {"(", ")"}
             THEN flush \o <<ParenCard(str[i])>> \o LexInfix(str, i + 1, -1)
        ELSE flush \o <<OperatorCard(str[i])>> \o LexInfix(str, i + 1, -1)

\* Two results denote the same value within 0.001 (two undefined results
\* are taken to agree).
SameValue(a, b) ==
    \/ IsNaN(a) /\ IsNaN(b)
    \/ NumLess(NumAbs(NumSub(a, b)), <<1, 1000>>)

Reparsed(node) == parseExpression(LexInfix(generateExpressionString(node), 1, -1))

\* C4 (as stated): rendering an AST the parser produced and parsing the
\* string again gives the same value within 0.001.
RenderRoundTrip ==
    (pc = "returned" /\ ast # NullNode)
        => SameValue(evaluateAST(Reparsed(ast)), evaluateAST(ast))

RECURSIVE DividesByZero(_)
DividesByZero(node) ==
    /\ node.type = "operation"
    /\ \/ node.operator = "÷" /\ evaluateAST(node.right) = Rat(0)
       \/ DividesByZero(node.left)
       \/ DividesByZero(node.right)

\* C6: a division by zero anywhere in the tree gives a not-a-number
\* result and isCorrect = false.
DivisionByZeroIsNaN ==
    (pc = "returned" /\ ast # NullNode /\ DividesByZero(ast))
        => /\ IsNaN(gameResult.result)
           /\ gameResult.result = NaN
           /\ ~gameResult.isCorrect

\* 3 + 8 ÷ (3 - 3) × 8 has been calculated: a computed zero divisor below
\* a × and a +.
DivisionByZeroIsNaNWitness ==
    /\ pc = "returned"
    /\ cards = << N(3), O("+"), N(8), O("÷"), PairCard(<<N(3), O("-"), N(3)>>),
                  O("×"), N(8) >>
    /\ ast.type = "operation"
    /\ ast.operator = "+"
    /\ DividesByZero(ast)
    /\ IsNaN(gameResult.result)

\* C7: a non-empty card list that the validator rejects or the parser
\* fails on gives NaN, an empty expression string and isCorrect = false.
RejectedListGivesNaN ==
    (pc = "returned" /\ Len(cards) > 0 /\ (~valid \/ ast = NullNode))
        => /\ gameResult.result = NaN
           /\ gameResult.expression = <<>>
           /\ gameResult.isCorrect = FALSE

\* An operator-first list has been rejected, and a validated list on which
\* the parser fails has been calculated.
RejectedListGivesNaNWitness ==
    /\ pc = "returned"
    /\ \/ cards = << O("+"), N(3) >> /\ ~valid
       \/ cards = << N(3), PairCard(<<N(3)>>) >> /\ valid /\ ast = NullNode
    /\ gameResult.expression = <<>>

(***************************************************************************)
(* Properties of the combinatorics engine (checked under SpecQuestion)     *)
(***************************************************************************)
OperatorSymbols == {"+", "-", "×", "÷"}

\* The orderings of four numbers, by position.
Orderings(numbers) ==
    {[k \in 1..4 |-> numbers[pi[k]]] : pi \in Permutations(1..4)}

OperatorTriples == [1..3 -> OperatorSymbols]

\* ((n0 op0 n1) op1 n2) op2 n3; NaN once a division by zero is hit.
LeftToRight(p, o) ==
    StdApply(o[3], StdApply(o[2], StdApply(o[1], Rat(p[1]), Rat(p[2])), Rat(p[3])), Rat(p[4]))

Solves(p, o) ==
    LET v == LeftToRight(p, o)
    IN  ~IsNaN(v) /\ NumLess(NumAbs(StdApply("-", v, Rat(24))), <<1, 1000>>)

\* The distinct renderings 'n0 op0 n1 op1 n2 op2 n3' of the solving
\* combinations; a rendering is determined by its seven tokens.
SolvingRenderings(numbers) ==
    {<<po[1][1], po[2][1], po[1][2], po[2][2], po[1][3], po[2][3], po[1][4]>> :
        po \in {qo \in Orderings(numbers) \X OperatorTriples : Solves(qo[1], qo[2])}}

\* C8: countSolutions is the number of distinct renderings of the solving
\* left-to-right combinations, and hasSolution holds exactly when it is
\* positive (so for [6,6,6,6]).
CountIsDistinctSolvingRenderings ==
    question # NoValue
        => /\ question.solutionCount = Cardinality(SolvingRenderings(question.numbers))
           /\ hasSolution(question.numbers) <=> (question.solutionCount > 0)
           /\ question.numbers = <<6, 6, 6, 6>> => hasSolution(question.numbers)

\* [6,6,6,6] has been generated: 6 + 6 + 6 + 6 and 6 × 6 - 6 - 6.
CountIsDistinctSolvingRenderingsWitness ==
    /\ question # NoValue
    /\ question.numbers = <<6, 6, 6, 6>>
    /\ question.solutionCount = 2

\* Position pairs <<ordering, triple>> of the solving combinations in the
\* enumeration order of the two nested loops.
SolvingPositions(numbers) ==
    LET perms  == getPermutations(numbers)
        combos == generateOperatorCombinations(3)
    IN  {ij \in (1..Len(perms)) \X (1..Len(combos)) : Solves(perms[ij[1]], combos[ij[2]])}

Earlier(a, b) == a[1] < b[1] \/ (a[1] = b[1] /\ a[2] < b[2])

\* The hint built from the first solving combination: its first operand,
\* first operator and second operand, and nothing else of it.
ExpectedHint(numbers) ==
    LET perms  == getPermutations(numbers)
        combos == generateOperatorCombinations(3)
        pos    == SolvingPositions(numbers)
        first  == CHOOSE a \in pos : \A b \in pos : a = b \/ Earlier(a, b)
        p      == perms[first[1]]
        o      == combos[first[2]]
    IN  HintPrefix \o NumToString(p[1]) \o <<" ", o[1], " ">> \o NumToString(p[2])
        \o HintSuffix

\* C9: the hint is the fallback message exactly when there is no solution;
\* otherwise it shows the first three tokens of the first solving
\* combination in enumeration order.
HintDisclosesFirstThreeTokens ==
    (question # NoValue /\ hint # <<>>)
        => /\ (hint = NoSolutionHint) <=> (countSolutions(question.numbers) = 0)
           /\ question.solutionCount > 0 => hint = ExpectedHint(question.numbers)

\* A hint for [6,6,6,8] has been given; its first ordering has solutions.
HintDisclosesFirstThreeTokensWitness ==
    /\ question # NoValue
    /\ question.numbers = <<6, 6, 6, 8>>
    /\ hint # <<>>
    /\ hint # NoSolutionHint

\* The difficulty formula in tenths.
ExpectedDifficulty(numbers, solutions) ==
    LET large    == Cardinality({k \in 1..4 : numbers[k] > 10})
        distinct == Cardinality({numbers[k] : k \in 1..4})
        tenths   == 10 + 5 * large + 3 * (4 - distinct)
                    + (IF solutions = 1 THEN 10 ELSE 0)
                    - (IF solutions > 5 THEN 5 ELSE 0)
        clamped  == IF tenths < 10 THEN 10 ELSE IF tenths > 50 THEN 50 ELSE tenths
    IN  IF solutions = 0 THEN Rat(5) ELSE Norm(clamped, 10)

\* C10: calculateDifficulty is 5 without solutions, else
\* 1 + 0.5 × (numbers > 10) + 0.3 × (4 - distinct) + 1 (one solution)
\* - 0.5 (more than five solutions), clamped to [1,5].
DifficultyFormula ==
    question # NoValue
        => question.difficulty
             = ExpectedDifficulty(question.numbers, countSolutions(question.numbers))

\* [1,12,12,12] (one solution, three large numbers, two repeats): 4.1.
DifficultyFormulaWitness ==
    /\ question # NoValue
    /\ question.numbers = <<1, 12, 12, 12>>
    /\ question.solutionCount = 1
    /\ question.difficulty = <<41, 10>>

(***************************************************************************)
(* The catalogue module (utils/solutions)                                  *)
(***************************************************************************)
\* A sample of game24_solutions.json: sorted-numbers key and the known
\* solution strings of that key.
SolutionsData ==
    << [key |-> <<"6", ",", "6", ",", "6", ",", "6">>,
        solutions |-> << <<"6", "+", "6", "+", "6", "+", "6">>,
                         <<"6", "*", "6", "-", "6", "-", "6">> >>],
       [key |-> <<"3", ",", "3", ",", "8", ",", "8">>,
        solutions |-> << <<"8", "/", "(", "3", "-", "8", "/", "3", ")">> >>],
       [key |-> <<"1", ",", "3", ",", "8", ",", "1", "2">>,
        solutions |-> << <<"(", "1", "2", "-", "8", "-", "1", ")", "*", "3">>,
                         <<"(", "1", "+", "3", ")", "*", "(", "1", "2", "-", "8", ")">>,
                         <<"1", "2", "/", "(", "3", "-", "1", ")", "*", "8">> >>],
       [key |-> <<"1", "1", ",", "1", "1", ",", "1", "2", ",", "1", "3">>,
        solutions |-> << <<"1", "1", "+", "1", "3", "*", "(", "1", "2", "-", "1", "1", ")">> >>] >>

\* parseInt(str, 10) of a run of digits.
RECURSIVE parseInt(_)
parseInt(str) ==
    IF Len(str) = 0 THEN 0
    ELSE 10 * parseInt(SubSeq(str, 1, Len(str) - 1))
         + (CHOOSE v \in 0..9 : NumToString(v) = <<str[Len(str)]>>)

\* numbersStr.split(',').map(n => parseInt(n, 10))
RECURSIVE SplitNumbers(_, _)
SplitNumbers(str, current) ==
    IF Len(str) = 0 THEN <<parseInt(current)>>
    ELSE IF Head(str) = "," THEN <<parseInt(current)>> \o SplitNumbers(Tail(str), <<>>)
    ELSE SplitNumbers(Tail(str), Append(current, Head(str)))

\* calculateDifficulty of the catalogue module (numbers, number of solutions).
cacheCalculateDifficulty(nums, solutionCount) ==
    LET byCount == IF solutionCount <= 2 THEN 3 ELSE IF solutionCount <= 5 THEN 2 ELSE 1
        byLarge == IF LargeNumbers(nums) >= 2 THEN byCount + 1 ELSE byCount
        byUnique == IF UniqueNumbers(nums) <= 2 THEN byLarge + 1 ELSE byLarge
    IN  IF byUnique < 5 THEN byUnique ELSE 5

\* questionCache.sort((a, b) => a.difficulty - b.difficulty)
RECURSIVE SortByDifficulty(_)
SortByDifficulty(cache) ==
    IF Len(cache) = 0 THEN <<>>
    ELSE LET last == cache[Len(cache)]
             init == SortByDifficulty(SubSeq(cache, 1, Len(cache) - 1))
             keep == SelectSeq(init, LAMBDA q : q.difficulty <= last.difficulty)
             move == SelectSeq(init, LAMBDA q : q.difficulty > last.difficulty)
         IN  keep \o <<last>> \o move

\* buildCache(): one Question per entry of the data, sorted by difficulty.
buildCache(data) ==
    SortByDifficulty(
        [k \in 1..Len(data) |->
            [numbers    |-> SplitNumbers(data[k].key, <<>>),
             hash       |-> data[k].key,
             difficulty |-> cacheCalculateDifficulty(SplitNumbers(data[k].key, <<>>),
                                                     Len(data[k].solutions)),
             solutions  |-> data[k].solutions]])

\* hashToQuestionMap.get(hash); NoValue is undefined.
getQuestionByHash(cache, hash) ==
    LET found == SelectSeq(cache, LAMBDA q : q.hash = hash)
    IN  IF Len(found) = 0 THEN NoValue ELSE found[Len(found)]

\* numbers.sort((a, b) => a - b).join(','): the sort is in place, so the
\* argument array holds the sorted numbers afterwards.
SortedInPlaceHash(nums) ==
    [numbers |-> SortAscending(nums),
     hash    |-> JoinWith([k \in 1..Len(nums) |-> NumToString(SortAscending(nums)[k])],
                          <<",">>)]

Includes(str, ch) == \E k \in 1..Len(str) : str[k] = ch

\* generateHint of the catalogue module: the returned hint and the
\* argument array after the call.  The hint texts are named by their case.
catalogueGenerateHint(cache, nums) ==
    LET sorted   == SortedInPlaceHash(nums)
        q        == getQuestionByHash(cache, sorted.hash)
        solution == q.solutions[1]
    IN  [numbers |-> sorted.numbers,
         result  |-> IF q = NoValue THEN "observe"
                     ELSE IF Len(q.solutions) = 0 THEN "observe"
                     ELSE IF Includes(solution, "*") /\ Includes(solution, "+")
                          THEN "add-then-multiply"
                     ELSE IF Includes(solution, "*") /\ Includes(solution, "-")
                          THEN "subtract-then-multiply"
                     ELSE IF Includes(solution, "/") THEN "division"
                     ELSE "other-order"]

\* hasSolution of the catalogue module.
catalogueHasSolution(cache, nums) ==
    LET sorted == SortedInPlaceHash(nums)
        q      == getQuestionByHash(cache, sorted.hash)
    IN  [numbers |-> sorted.numbers,
         result  |-> IF q = NoValue THEN FALSE ELSE Len(q.solutions) > 0]

getSolutionCount(cache, nums) ==
    LET sorted == SortedInPlaceHash(nums)
        q      == getQuestionByHash(cache, sorted.hash)
    IN  [numbers |-> sorted.numbers,
         result  |-> IF q = NoValue THEN 0 ELSE Len(q.solutions)]

\* questionHash of POST /game/submit: numbers.slice().sort(...).join(',')
submitQuestionHash(nums) ==
    LET copy == SortAscending(nums)
    IN  JoinWith([k \in 1..Len(copy) |-> NumToString(copy[k])], <<",">>)

(***************************************************************************)
(* SpecCalls: the functions called on a caller's array and card list       *)
(***************************************************************************)
\* The arrays a caller holds: every ordering of three puzzles.
CallPuzzles == { <<6, 6, 6, 6>>, <<3, 3, 8, 8>>, <<1, 3, 8, 12>> }

CallArrays ==
    UNION { { [k \in 1..4 |-> puzzle[p[k]]] :
                p \in {f \in [1..4 -> 1..4] : \A i, j \in 1..4 : i # j => f[i] # f[j]} } :
            puzzle \in CallPuzzles }

InitCalls ==
    /\ cards = << N(8), O("÷"), PairCard(<<N(3), O("-"), N(8), O("÷"), N(3)>>) >>
    /\ valid = FALSE
    /\ ast = NullNode
    /\ gameResult = FailedResult
    /\ pc = "idle"
    /\ IdleQuestion
    /\ callerNumbers \in CallArrays
    /\ call = NoValue
    /\ catalogue = buildCache(SolutionsData)
    /\ IdleSubmit
    /\ IdleServe
    /\ IdleBoard
    /\ IdleDb

Returned(name, args, result) ==
    [type |-> "call", name |-> name, args |-> args, result |-> result]

\* generateQuestionHash(numbers) of the game logic: the sort works on a copy.
CallGenerateQuestionHash ==
    /\ call' = Returned("generateQuestionHash", callerNumbers,
                        generateQuestionHash(callerNumbers))
    /\ callerNumbers' = callerNumbers
    /\ UNCHANGED <<catalogue, exprVars, questionVars, submitVars, serveVars, boardVars, dbVars>>

\* The questionHash statement of POST /game/submit: slice() copies.
CallSubmitHash ==
    /\ call' = Returned("submitQuestionHash", callerNumbers,
                        submitQuestionHash(callerNumbers))
    /\ callerNumbers' = callerNumbers
    /\ UNCHANGED <<catalogue, exprVars, questionVars, submitVars, serveVars, boardVars, dbVars>>

\* countSolutions(numbers): getPermutations slices and concatenates copies.
CallCountSolutions ==
    /\ call' = Returned("countSolutions", callerNumbers, countSolutions(callerNumbers))
    /\ callerNumbers' = callerNumbers
    /\ UNCHANGED <<catalogue, exprVars, questionVars, submitVars, serveVars, boardVars, dbVars>>

\* calculateExpression(cards): flattenCards builds a new list.
CallCalculateExpression ==
    /\ call' = Returned("calculateExpression", cards, calculateExpression(cards))
    /\ gameResult' = calculateExpression(cards)
    /\ pc' = "returned"
    /\ cards' = cards
    /\ UNCHANGED <<valid, ast, callerNumbers, catalogue, questionVars, submitVars, serveVars, boardVars, dbVars>>

\* generateHint(numbers) of the catalogue module.
CallCatalogueGenerateHint ==
    /\ call' = Returned("generateHint", callerNumbers,
                        catalogueGenerateHint(catalogue, callerNumbers).result)
    /\ callerNumbers' = catalogueGenerateHint(catalogue, callerNumbers).numbers
    /\ UNCHANGED <<catalogue, exprVars, questionVars, submitVars, serveVars, boardVars, dbVars>>

\* hasSolution(numbers) of the catalogue module.
CallCatalogueHasSolution ==
    /\ call' = Returned("hasSolution", callerNumbers,
                        catalogueHasSolution(catalogue, callerNumbers).result)
    /\ callerNumbers' = catalogueHasSolution(catalogue, callerNumbers).numbers
    /\ UNCHANGED <<catalogue, exprVars, questionVars, submitVars, serveVars, boardVars, dbVars>>

\* getSolutionCount(numbers) of the catalogue module.
CallGetSolutionCount ==
    /\ call' = Returned("getSolutionCount", callerNumbers,
                        getSolutionCount(catalogue, callerNumbers).result)
    /\ callerNumbers' = getSolutionCount(catalogue, callerNumbers).numbers
    /\ UNCHANGED <<catalogue, exprVars, questionVars, submitVars, serveVars, boardVars, dbVars>>

NextCalls ==
    \/ CallGenerateQuestionHash
    \/ CallSubmitHash
    \/ CallCountSolutions
    \/ CallCalculateExpression
    \/ CallCatalogueGenerateHint
    \/ CallCatalogueHasSolution
    \/ CallGetSolutionCount

SpecCalls == InitCalls /\ [][NextCalls]_vars

(***************************************************************************)
(* Properties of the calls (checked under SpecCalls)                       *)
(***************************************************************************)
\* The ascending arrangement of four numbers, joined by ",".
SortedJoin(nums) ==
    LET ascending == CHOOSE o \in Orderings(nums) : \A k \in 1..3 : o[k] <= o[k + 1]
    IN  JoinWith([k \in 1..4 |-> NumToString(ascending[k])], <<",">>)

\* C11: generateQuestionHash returns the numbers sorted ascending and joined
\* by ",", the same string for every ordering of the list, it leaves the
\* list as it was, and the submit handler computes the same string.
HashIsOrderIndependent ==
    (call # NoValue /\ call.name = "generateQuestionHash")
        => /\ call.result = SortedJoin(call.args)
           /\ \A o \in Orderings(call.args) : generateQuestionHash(o) = call.result
           /\ callerNumbers = call.args
           /\ submitQuestionHash(call.args) = call.result

HashIsOrderIndependentWitness ==
    /\ call # NoValue
    /\ call.name = "generateQuestionHash"
    /\ call.args = <<12, 8, 1, 3>>
    /\ call.result = <<"1", ",", "3", ",", "8", ",", "1", "2">>
    /\ callerNumbers = <<12, 8, 1, 3>>

\* C19 (as stated): a call of one of the lookup and computation functions
\* leaves the caller's numbers array, the card list and the catalogue unchanged.
CallsArePure ==
    call # NoValue
        => /\ call.name # "calculateExpression" => callerNumbers = call.args
           /\ call.name = "calculateExpression" => cards = call.args
           /\ catalogue = buildCache(SolutionsData)

(***************************************************************************)
(* Properties of the question records (checked under SpecQuestion)         *)
(***************************************************************************)
\* The non-decreasing 4-tuples over the numbers that the loops reach.
SortedTuples ==
    {t \in [1..4 -> 1..PregenMax] : t[1] <= t[2] /\ t[2] <= t[3] /\ t[3] <= t[4]}

Solvable(t) == \E o \in Orderings(t) : \E ops \in OperatorTriples : Solves(o, ops)

RecordsOf(t) == {k \in 1..Len(questions) : questions[k].numbers = t}

\* C12: the list that pregenerateAllQuestions returns holds exactly one
\* record for each non-decreasing tuple that has a solution, no record for
\* any other tuple, and no two records with the same hash.
PregeneratedCatalogueIsExact ==
    loop.pc = "done"
        => /\ \A t \in SortedTuples :
                Cardinality(RecordsOf(t)) = IF Solvable(t) THEN 1 ELSE 0
           /\ \A k \in 1..Len(questions) : questions[k].numbers \in SortedTuples
           /\ \A j, k \in 1..Len(questions) :
                j # k => questions[j].hash # questions[k].hash

PregeneratedCatalogueIsExactWitness ==
    /\ loop.pc = "done"
    /\ Len(questions) > 0
    /\ Len(questions) < Cardinality(SortedTuples)
    /\ \E k \in 1..Len(questions) : questions[k].numbers = <<6, 6, 6, 6>>
    /\ RecordsOf(<<1, 1, 1, 1>>) = {}

\* What C13 says of one Question record.
WellFormedRecord(q) ==
    /\ validateQuestion(q)
    /\ Len(q.numbers) = 4
    /\ \A k \in 1..4 : q.numbers[k] \in 1..13
    /\ q.difficulty[2] > 0
    /\ q.difficulty[1] >= q.difficulty[2]
    /\ q.difficulty[1] <= 5 * q.difficulty[2]
    /\ q.solutionCount = countSolutions(q.numbers)
    /\ q.hash = SortedJoin(q.numbers)

\* C13: the record that generateQuestion returned and the record that
\* pregenerateAllQuestions appended last satisfy validateQuestion, with the
\* solution count of countSolutions and the sorted-number join as hash.
RecordsAreValid ==
    /\ question # NoValue => WellFormedRecord(question)
    /\ Len(questions) > 0 => WellFormedRecord(questions[Len(questions)])

RecordsAreValidWitness ==
    /\ question # NoValue
    /\ question.numbers = <<8, 6, 3, 1>>
    /\ question.difficulty = <<1, 1>>
    /\ question.solutionCount > 5
    /\ question.hash = <<"1", ",", "3", ",", "6", ",", "8">>

(***************************************************************************)
(* The string evaluator and validateExpression (utils/solutions)           *)
(***************************************************************************)
\* expression.replace(/\s/g, '')
RemoveWhitespace(str) == SelectSeq(str, LAMBDA ch : ch # " ")

\* cleanExpression.match(/\d+/g)?.map(n => parseInt(n, 10)) || []
RECURSIVE MatchNumbers(_, _)
MatchNumbers(str, run) ==
    LET flush == IF Len(run) = 0 THEN <<>> ELSE <<parseInt(run)>>
    IN  IF Len(str) = 0 THEN flush
        ELSE IF IsDigit(Head(str)) THEN MatchNumbers(Tail(str), Append(run, Head(str)))
        ELSE flush \o MatchNumbers(Tail(str), <<>>)

\* How a call ended: with a thrown Error (named by its message) or a value.
Threw(message) == [ok |-> FALSE, error |-> message]

Value(v) == [ok |-> TRUE, value |-> v]

\* tokenize(expression): numbers and the characters of '+-*/()'.
RECURSIVE tokenize(_, _)
tokenize(str, run) ==
    LET flush == IF Len(run) = 0 THEN <<>>
                 ELSE <<[number |-> TRUE, value |-> parseInt(run)]>>
    IN  IF Len(str) = 0 THEN Value(flush)
        ELSE IF IsDigit(Head(str)) THEN tokenize(Tail(str), Append(run, Head(str)))
        ELSE IF Head(str) \in {"+", "-", "*", "/", "(", ")"}
             THEN LET rest == tokenize(Tail(str), <<>>)
                  IN  IF rest.ok
                      THEN Value(flush \o <<[number |-> FALSE, value |-> Head(str)]>>
                                 \o rest.value)
                      ELSE rest
        ELSE Threw("invalid-character")

\* tokens[index] === symbol
IsSymbol(tokens, index, symbol) ==
    /\ index <= Len(tokens)
    /\ ~tokens[index].number
    /\ tokens[index].value = symbol

\* A parse function returned: its value and the shared index afterwards.
Parsed(v, index) == [ok |-> TRUE, value |-> v, index |-> index]

\* The body of the loop of parseExpression once parseTerm has returned
\* right (or thrown).
ApplyExpressionOperator(operator, result, right) ==
    IF ~right.ok THEN right
    ELSE IF operator = "+" THEN Parsed(NumAdd(result.value, right.value), right.index)
    ELSE Parsed(NumSub(result.value, right.value), right.index)

\* Variant of the body of the loop of parseTerm without the zero test (a
\* division by zero then gives a non-finite number).
ApplyTermOperatorUnchecked(operator, result, right) ==
    IF ~right.ok THEN right
    ELSE IF operator = "*" THEN Parsed(NumMul(result.value, right.value), right.index)
    ELSE Parsed(DivCalc(result.value, right.value), right.index)

\* The body of the loop of parseTerm once parseFactor has returned right
\* (or thrown).
ApplyTermOperator(operator, result, right) ==
    IF ~right.ok THEN right
    ELSE IF operator = "*" THEN Parsed(NumMul(result.value, right.value), right.index)
    ELSE IF right.value = Rat(0) THEN Threw("division-by-zero")
    ELSE Parsed(NumDiv(result.value, right.value), right.index)

\* parseFactor after the parseExpression of a parenthesis has returned.
CloseParenthesis(tokens, result) ==
    IF ~result.ok THEN result
    ELSE IF ~IsSymbol(tokens, result.index, ")") THEN Threw("missing-right-parenthesis")
    ELSE Parsed(result.value, result.index + 1)

\* -parseFactor()
Negate(operand) ==
    IF operand.ok THEN Parsed(NumSub(Rat(0), operand.value), operand.index) ELSE operand

RECURSIVE parseExpressionString(_, _)
RECURSIVE ExpressionLoop(_, _)
RECURSIVE parseTerm(_, _)
RECURSIVE TermLoop(_, _)
RECURSIVE parseFactor(_, _)

\* parseExpression of evaluateWithParser
parseExpressionString(tokens, index) ==
    ExpressionLoop(tokens, parseTerm(tokens, index))

\* The while loop of parseExpression; result holds the value so far and the
\* index.
ExpressionLoop(tokens, result) ==
    IF ~result.ok THEN result
    ELSE IF IsSymbol(tokens, result.index, "+") \/ IsSymbol(tokens, result.index, "-")
         THEN ExpressionLoop(tokens,
                  ApplyExpressionOperator(tokens[result.index].value, result,
                                          parseTerm(tokens, result.index + 1)))
    ELSE result

parseTerm(tokens, index) ==
    TermLoop(tokens, parseFactor(tokens, index))

\* The while loop of parseTerm.
TermLoop(tokens, result) ==
    IF ~result.ok THEN result
    ELSE IF IsSymbol(tokens, result.index, "*") \/ IsSymbol(tokens, result.index, "/")
         THEN TermLoop(tokens,
                  ApplyTermOperator(tokens[result.index].value, result,
                                    parseFactor(tokens, result.index + 1)))
    ELSE result

parseFactor(tokens, index) ==
    IF IsSymbol(tokens, index, "(")
    THEN CloseParenthesis(tokens, parseExpressionString(tokens, index + 1))
    ELSE IF index <= Len(tokens) /\ tokens[index].number
         THEN Parsed(Rat(tokens[index].value), index + 1)
    ELSE IF IsSymbol(tokens, index, "-") THEN Negate(parseFactor(tokens, index + 1))
    ELSE Threw("unexpected-token")

\* Variant of evaluateWithParser without the test for remaining tokens.
evaluateWithParserNoRemainderTest(expr) ==
    LET tokens == tokenize(RemoveWhitespace(expr), <<>>)
        result == parseExpressionString(tokens.value, 1)
    IN  IF ~tokens.ok THEN tokens
        ELSE IF ~result.ok THEN result
        ELSE Value(result.value)

evaluateWithParser(expr) ==
    LET tokens == tokenize(RemoveWhitespace(expr), <<>>)
        result == parseExpressionString(tokens.value, 1)
    IN  IF ~tokens.ok THEN tokens
        ELSE IF ~result.ok THEN result
        ELSE IF result.index # Len(tokens.value) + 1 THEN Threw("remaining-tokens")
        ELSE Value(result.value)

\* /^[0-9+\-*/()]+$/.test(expression)
OnlyAllowedCharacters(expr) ==
    /\ Len(expr) > 0
    /\ \A k \in 1..Len(expr) :
         IsDigit(expr[k]) \/ expr[k] \in {"+", "-", "*", "/", "(", ")"}

\* evaluateExpression(expression): the catch block throws the message again.
evaluateExpression(expr) ==
    IF ~OnlyAllowedCharacters(expr) THEN Threw("illegal-character")
    ELSE LET result == evaluateWithParser(expr)
         IN  IF ~result.ok THEN result
             ELSE IF IsNaN(result.value) THEN Threw("invalid-result")
             ELSE result

Mismatch(message, expected, actual) ==
    [valid |-> FALSE, error |-> message,
     details |-> [type |-> "numbers", expected |-> expected, actual |-> actual]]

\* Variant of validateExpression that compares the number of literals only.
validateExpressionCountOnly(nums, expr) ==
    LET cleanExpression   == RemoveWhitespace(expr)
        sortedNumbers     == SortAscending(nums)
        sortedExprNumbers == SortAscending(MatchNumbers(cleanExpression, <<>>))
        result            == evaluateExpression(cleanExpression)
    IN  IF Len(sortedNumbers) # Len(sortedExprNumbers)
        THEN Mismatch("count-mismatch", sortedNumbers, sortedExprNumbers)
        ELSE IF ~result.ok
             THEN [valid |-> FALSE, error |-> result.error, details |-> NoValue]
        ELSE IF Near24(result.value)
             THEN [valid |-> TRUE, error |-> "", details |-> NoValue]
        ELSE [valid |-> FALSE, error |-> "not-24",
              details |-> [type |-> "result", result |-> result.value]]

\* validateExpression(numbers, expression); the error texts are named by
\* their case.
validateExpression(nums, expr) ==
    LET cleanExpression   == RemoveWhitespace(expr)
        sortedNumbers     == SortAscending(nums)
        sortedExprNumbers == SortAscending(MatchNumbers(cleanExpression, <<>>))
        result            == evaluateExpression(cleanExpression)
    IN  IF Len(sortedNumbers) # Len(sortedExprNumbers)
        THEN Mismatch("count-mismatch", sortedNumbers, sortedExprNumbers)
        ELSE IF \E i \in 1..Len(sortedNumbers) : sortedNumbers[i] # sortedExprNumbers[i]
             THEN Mismatch("number-mismatch", sortedNumbers, sortedExprNumbers)
        ELSE IF ~result.ok
             THEN [valid |-> FALSE, error |-> result.error, details |-> NoValue]
        ELSE IF Near24(result.value)
             THEN [valid |-> TRUE, error |-> "", details |-> NoValue]
        ELSE [valid |-> FALSE, error |-> "not-24",
              details |-> [type |-> "result", result |-> result.value]]

(***************************************************************************)
(* SpecSubmit: expression strings handed to validateExpression             *)
(***************************************************************************)
\* Documented expressions and boundary cases.
SubmitScenarios ==
    { <<>>,
      <<"(", "1", "+", "2", "+", "3", ")", "*", "4">>,
      <<"8", "/", "(", "3", "-", "8", "/", "3", ")">>,
      <<"8", "/", "0">>,
      <<"8", "/", "(", "3", "-", "3", ")", "*", "8">>,
      <<"1", "+", "2", ")">>,
      <<"(", "1", "+", "2">>,
      <<"3", " ", "*", " ", "8">>,
      <<"1", "2", "+", "1", "2">>,
      <<"8", "÷", "(", "3", "-", "8", "÷", "3", ")">> }

\* The characters TypeChar draws from ("a" stands for any other character).
SubmitAlphabet == {"0", "3", "8", "+", "-", "*", "/", "(", ")", " ", "a"}

\* Puzzles submitted with an expression that does not use their numbers.
OtherPuzzles == { <<3, 8>>, <<3, 3, 8, 8>> }

InitSubmit ==
    /\ IdleExpr
    /\ IdleQuestion
    /\ IdleCalls
    /\ expression \in SubmitScenarios
    /\ validation = NoValue
    /\ evaluation = NoValue
    /\ IdleServe
    /\ IdleBoard
    /\ IdleDb

\* The player types one more character.
TypeChar(ch) ==
    /\ Len(expression) < MaxExprLen
    /\ expression' = Append(expression, ch)
    /\ validation' = NoValue
    /\ evaluation' = NoValue
    /\ callerNumbers' = <<>>
    /\ UNCHANGED <<call, catalogue, exprVars, questionVars, serveVars, boardVars, dbVars>>

\* validateExpression(nums, expression) runs to its return; evaluation keeps
\* how its call of evaluateExpression ended, if it made the call.
ValidateExpression(nums) ==
    /\ validation = NoValue
    /\ callerNumbers' = nums
    /\ validation' = validateExpression(nums, expression)
    /\ evaluation' =
         IF validateExpression(nums, expression).details.type = "numbers"
         THEN NoValue
         ELSE evaluateExpression(RemoveWhitespace(expression))
    /\ UNCHANGED <<expression, call, catalogue, exprVars, questionVars, serveVars, boardVars, dbVars>>

NextSubmit ==
    \/ \E ch \in SubmitAlphabet : TypeChar(ch)
    \/ \E nums \in OtherPuzzles \cup {MatchNumbers(RemoveWhitespace(expression), <<>>)} :
         ValidateExpression(nums)

SpecSubmit == InitSubmit /\ [][NextSubmit]_vars

(***************************************************************************)
(* The string grammar, by derivation                                       *)
(*   Expression := Term (('+'|'-') Term)*                                  *)
(*   Term       := Factor (('*'|'/') Factor)*                              *)
(*   Factor     := Number | '(' Expression ')' | '-' Factor                *)
(* Each operator gives the set of values of the derivations of a token     *)
(* list from one nonterminal (empty when there is none); a derivation that *)
(* divides by zero has the value NaN.                                      *)
(***************************************************************************)
RECURSIVE RefExpression(_)
RECURSIVE RefTerm(_)
RECURSIVE RefFactor(_)

RefExpression(ts) ==
    RefTerm(ts) \cup
    UNION { { IF ts[k].value = "+" THEN NumAdd(l, r) ELSE NumSub(l, r) :
                l \in RefExpression(SubSeq(ts, 1, k - 1)),
                r \in RefTerm(SubSeq(ts, k + 1, Len(ts))) } :
            k \in { j \in 2..(Len(ts) - 1) : ~ts[j].number /\ ts[j].value \in {"+", "-"} } }

RefTerm(ts) ==
    RefFactor(ts) \cup
    UNION { { IF ts[k].value = "*" THEN NumMul(l, r) ELSE DivCalc(l, r) :
                l \in RefTerm(SubSeq(ts, 1, k - 1)),
                r \in RefFactor(SubSeq(ts, k + 1, Len(ts))) } :
            k \in { j \in 2..(Len(ts) - 1) : ~ts[j].number /\ ts[j].value \in {"*", "/"} } }

RefFactor(ts) ==
    IF Len(ts) = 0 THEN {}
    ELSE IF Len(ts) = 1 THEN (IF ts[1].number THEN {Rat(ts[1].value)} ELSE {})
    ELSE IF ts[1].number THEN {}
    ELSE IF ts[1].value = "-" THEN { NumSub(Rat(0), v) : v \in RefFactor(Tail(ts)) }
    ELSE IF ts[1].value = "(" /\ ~ts[Len(ts)].number /\ ts[Len(ts)].value = ")"
         THEN RefExpression(SubSeq(ts, 2, Len(ts) - 1))
    ELSE {}

\* The values of the derivations of a string: none when a character is
\* outside the alphabet.
RefValues(str) ==
    LET tokens == tokenize(str, <<>>)
    IN  IF tokens.ok THEN RefExpression(tokens.value) ELSE {}

\* Two number lists hold the same numbers the same number of times.
SameMultiset(a, b) ==
    /\ Len(a) = Len(b)
    /\ \A v \in {a[i] : i \in 1..Len(a)} \cup {b[i] : i \in 1..Len(b)} :
         Cardinality({i \in 1..Len(a) : a[i] = v}) = Cardinality({i \in 1..Len(b) : b[i] = v})

\* C14: validateExpression returns valid = true exactly when the literals
\* of the expression are the puzzle numbers as a multiset, the expression
\* derives from the grammar and its value is within 0.001 of 24; a failure
\* is a number mismatch with the expected and actual lists, a result other
\* than 24 with the value, or an error message alone.
ValidationIsExact ==
    validation # NoValue =>
      LET clean    == RemoveWhitespace(expression)
          literals == MatchNumbers(clean, <<>>)
          same     == SameMultiset(literals, callerNumbers)
          values   == RefValues(clean)
      IN  /\ validation.valid \in BOOLEAN
          /\ validation.valid <=> (same /\ \E v \in values : Near24(v))
          /\ validation.valid => validation.error = "" /\ validation.details = NoValue
          /\ ~validation.valid =>
               /\ validation.error # ""
               /\ validation.details.type \in {"numbers", "result", "none"}
               /\ validation.details.type = "numbers" <=> ~same
               /\ validation.details.type = "numbers" =>
                    /\ validation.details.expected = SortAscending(callerNumbers)
                    /\ validation.details.actual = SortAscending(literals)
               /\ validation.details.type = "result" <=>
                    (same /\ \E v \in values : ~IsNaN(v) /\ ~Near24(v))
               /\ validation.details.type = "result" =>
                    validation.details.result \in values
               /\ validation.details.type = "none" <=>
                    (same /\ \A v \in values : IsNaN(v))

\* "3 * 8" is validated against the numbers 3 and 8 and accepted.
ValidationIsExactWitness ==
    /\ expression = <<"3", " ", "*", " ", "8">>
    /\ callerNumbers = <<3, 8>>
    /\ validation # NoValue
    /\ validation.valid

\* The string holds a character outside digits, + - * / and parentheses.
HasIllegalCharacter(str) ==
    \E k \in 1..Len(str) :
        ~IsDigit(str[k]) /\ str[k] \notin {"+", "-", "*", "/", "(", ")"}

\* C15: an expression with a character outside the alphabet (after
\* whitespace removal) is reported as the illegal-character failure,
\* whatever numbers were supplied.
IllegalCharacterReportedFirst ==
    (validation # NoValue /\ HasIllegalCharacter(RemoveWhitespace(expression)))
        => (validation.error = "illegal-character" /\ validation.details = NoValue)

\* The failures of the grammar, as opposed to those of the arithmetic.
SyntaxFailures ==
    {"illegal-character", "invalid-character", "missing-right-parenthesis",
     "unexpected-token", "remaining-tokens"}

\* The token list starts with a number divided by a literal zero.
StartsWithDivisionByLiteralZero(ts) ==
    /\ Len(ts) >= 3
    /\ ts[1].number
    /\ ~ts[2].number /\ ts[2].value = "/"
    /\ ts[3].number /\ ts[3].value = 0

\* C16: an evaluation that divides by a divisor of value zero, literal or
\* computed, ends with the division-by-zero failure: not with a failure of
\* the grammar and not with a number.
DivisionByZeroIsDistinct ==
    evaluation # NoValue =>
      LET clean  == RemoveWhitespace(expression)
          tokens == tokenize(clean, <<>>)
      IN  /\ (\E v \in RefValues(clean) : IsNaN(v))
               => evaluation = Threw("division-by-zero")
          /\ (tokens.ok /\ StartsWithDivisionByLiteralZero(tokens.value))
               => evaluation = Threw("division-by-zero")
          /\ evaluation = Threw("division-by-zero") =>
               /\ validation.valid = FALSE
               /\ validation.error = "division-by-zero"
               /\ validation.error \notin SyntaxFailures
               /\ \E k \in 1..Len(clean) : clean[k] = "/"
          /\ evaluation.ok => /\ ~IsNaN(evaluation.value)
                              /\ RefValues(clean) = {evaluation.value}

\* "8/(3-3)*8" divides by a computed zero and ends with the failure.
DivisionByZeroIsDistinctWitness ==
    /\ expression = <<"8", "/", "(", "3", "-", "3", ")", "*", "8">>
    /\ evaluation = Threw("division-by-zero")
    /\ validation # NoValue

\* A right parenthesis follows a prefix that derives from Expression.
ClosedTooOften(ts) ==
    \E k \in 1..(Len(ts) - 1) :
        /\ IsSymbol(ts, k + 1, ")")
        /\ \E v \in RefExpression(SubSeq(ts, 1, k)) : ~IsNaN(v)

\* There is a left parenthesis and no right parenthesis.
NeverClosed(ts) ==
    /\ \E k \in 1..Len(ts) : IsSymbol(ts, k, "(")
    /\ \A k \in 1..Len(ts) : ~IsSymbol(ts, k, ")")

\* C17: the evaluator returns a number only for a string whose whole token
\* list derives from Expression, and then the value of that derivation; a
\* token left after the top-level Expression and an unclosed '(' are
\* failures, so the value of a prefix is never returned.
OnlyWholeDerivationsEvaluate ==
    evaluation # NoValue =>
      LET clean  == RemoveWhitespace(expression)
          tokens == tokenize(clean, <<>>)
          values == RefValues(clean)
      IN  /\ evaluation.ok <=> (\E v \in values : ~IsNaN(v))
          /\ evaluation.ok => values = {evaluation.value}
          /\ values = {} => ~evaluation.ok
          /\ values = {} => evaluation.error \in SyntaxFailures \cup {"division-by-zero"}
          /\ (tokens.ok /\ ClosedTooOften(tokens.value))
                => evaluation = Threw("remaining-tokens")
          /\ (tokens.ok /\ NeverClosed(tokens.value)) => ~evaluation.ok

\* "1+2)" is refused for the token left after 1+2.
OnlyWholeDerivationsEvaluateWitness ==
    /\ expression = <<"1", "+", "2", ")">>
    /\ evaluation = Threw("remaining-tokens")
    /\ validation.valid = FALSE

(***************************************************************************)
(* SpecServe: GET /question/next of one device, the KV records             *)
(***************************************************************************)
\* Sample catalogue with three questions of difficulty 1 to 3.
ServeSolutionsData ==
    SolutionsData \o
    << [key |-> <<"1", ",", "2", ",", "3", ",", "4">>,
        solutions |-> << <<"1", "*", "2", "*", "3", "*", "4">>,
                         <<"(", "1", "+", "2", "+", "3", ")", "*", "4">>,
                         <<"(", "1", "+", "3", ")", "*", "(", "2", "+", "4", ")">>,
                         <<"4", "*", "(", "1", "+", "2", "+", "3", ")">>,
                         <<"2", "*", "3", "*", "4", "*", "1">>,
                         <<"4", "*", "3", "*", "2", "/", "1">> >>],
       [key |-> <<"2", ",", "3", ",", "4", ",", "6">>,
        solutions |-> << <<"6", "*", "4", "*", "(", "3", "-", "2", ")">>,
                         <<"3", "*", "6", "+", "4", "+", "2">>,
                         <<"(", "6", "-", "3", ")", "*", "2", "*", "4">> >>] >>

\* getQuestionsByDifficulty(minDifficulty, maxDifficulty)
getQuestionsByDifficulty(cache, minDifficulty, maxDifficulty) ==
    SelectSeq(cache, LAMBDA q : q.difficulty >= minDifficulty /\ q.difficulty <= maxDifficulty)

\* expirationTtl of saveUserQuestions and the window of
\* cleanupExpiredRecords, in days.
SevenDays == 7

\* kv.get of the device's key inside getUserQuestions: the records of
\* last_7_days, none when the key was never written or has expired.
getUserQuestions ==
    IF kv.type = "stored" /\ now < kv.expires THEN kv.data ELSE {}

\* getPlayedQuestionHashes(deviceId): every key of last_7_days, kept here
\* with the timestamp of its record.
getPlayedQuestionHashes == getUserQuestions

\* cleanupExpiredRecords(userQuestions): recordDate > sevenDaysAgo stays.
cleanupExpiredRecords(data) == { r \in data : r.timestamp > now - SevenDays }

\* A parameter or field that is undefined.
Undefined == -1

\* x || fallback for a number or undefined x.
OrElse(x, fallback) == IF x = Undefined \/ x = 0 THEN fallback ELSE x

\* Math.min(existing.timeSpent || Infinity, timeSpent || 0)
MinTimeSpent(existingTimeSpent, timeSpent) ==
    IF OrElse(existingTimeSpent, Undefined) = Undefined THEN OrElse(timeSpent, 0)
    ELSE IF existingTimeSpent < OrElse(timeSpent, 0) THEN existingTimeSpent
    ELSE OrElse(timeSpent, 0)

\* The record that addQuestionRecord stores for the hash: a new one, or the
\* existing one updated.
MergedRecord(existing, questionHash, solved, timeSpent) ==
    IF existing = {}
    THEN [hash |-> questionHash, timestamp |-> now, attempts |-> 1,
          solved |-> solved, timeSpent |-> timeSpent]
    ELSE LET e == CHOOSE r \in existing : TRUE
         IN  [hash |-> questionHash, timestamp |-> now,
              attempts |-> OrElse(e.attempts, 0) + 1,
              solved |-> IF solved /\ ~e.solved THEN TRUE
                         ELSE IF ~solved THEN e.solved
                         ELSE solved,
              timeSpent |-> IF solved /\ ~e.solved THEN timeSpent
                            ELSE MinTimeSpent(e.timeSpent, timeSpent)]

\* addQuestionRecord(deviceId, questionHash, solved, timeSpent) from the
\* value read from the key to the value handed to saveUserQuestions.
addQuestionRecord(data, questionHash, solved, timeSpent) ==
    LET existing == { r \in data : r.hash = questionHash }
    IN  cleanupExpiredRecords(
            (data \ existing) \cup {MergedRecord(existing, questionHash, solved, timeSpent)})

InitServe ==
    /\ IdleExpr
    /\ IdleQuestion
    /\ IdleSubmit
    /\ callerNumbers = <<>>
    /\ call = NoValue
    /\ catalogue = buildCache(ServeSolutionsData)
    /\ kv = NoValue
    /\ now = 0
    /\ handlers = {}
    /\ recorders = {}
    /\ served = <<>>
    /\ added = <<>>
    /\ IdleBoard
    /\ IdleDb

\* The handlers and recorders started so far.
RequestsBegun == Len(served) + Cardinality(handlers)

\* GET /question/next arrives with the device's X-Device-ID; the handler
\* waits for the kv.get of getPlayedQuestionHashes.
Request ==
    /\ RequestsBegun < MaxRequests
    /\ handlers' = handlers \cup {RequestsBegun + 1}
    /\ UNCHANGED <<kv, now, recorders, served, exprVars, questionVars, callVars, submitVars, added, boardVars, dbVars>>

\* The hashes arrive: the handler picks a question (Math.random is the
\* choice of index), starts addQuestionRecord without awaiting it and
\* responds. generateHint sorts the numbers of the cached question in place.
Respond(h) ==
    /\ h \in handlers
    /\ LET playedHashes       == getPlayedQuestionHashes
           allQuestions       == getQuestionsByDifficulty(catalogue, 1, 3)
           availableQuestions ==
               SelectSeq(allQuestions,
                         LAMBDA q : \A r \in playedHashes : r.hash # q.hash)
           candidates == IF Len(availableQuestions) = 0 THEN allQuestions
                         ELSE availableQuestions
       IN  \E randomIndex \in 1..Len(candidates) :
             LET selectedQuestion == candidates[randomIndex]
                 hinted == catalogueGenerateHint(catalogue, selectedQuestion.numbers)
             IN  /\ recorders' = recorders \cup
                       {[id |-> h, hash |-> selectedQuestion.hash, solved |-> FALSE,
                         timeSpent |-> Undefined, pc |-> "get", data |-> {}]}
                 /\ catalogue' =
                       [k \in DOMAIN catalogue |->
                           IF catalogue[k].hash = selectedQuestion.hash
                           THEN [catalogue[k] EXCEPT !.numbers = hinted.numbers]
                           ELSE catalogue[k]]
                 /\ served' = Append(served,
                       [hash |-> selectedQuestion.hash,
                        numbers |-> selectedQuestion.numbers,
                        difficulty |-> selectedQuestion.difficulty,
                        hint |-> hinted.result,
                        day |-> now,
                        played |-> playedHashes])
    /\ handlers' = handlers \ {h}
    /\ UNCHANGED <<kv, now, callerNumbers, call, exprVars, questionVars, submitVars, added, boardVars, dbVars>>

\* addQuestionRecord: the kv.get resolves and the function runs on to its
\* call of kv.put.
RecorderGet(r) ==
    /\ r \in recorders
    /\ r.pc = "get"
    /\ recorders' = (recorders \ {r}) \cup
          {[r EXCEPT !.pc = "put",
                     !.data = addQuestionRecord(getUserQuestions, r.hash, r.solved, r.timeSpent)]}
    /\ UNCHANGED <<kv, now, handlers, served, exprVars, questionVars, callVars, submitVars, added, boardVars, dbVars>>

\* saveUserQuestions: the put replaces the value of the key and gives it a
\* life of seven days.
RecorderPut(r) ==
    /\ r \in recorders
    /\ r.pc = "put"
    /\ kv' = [type |-> "stored", data |-> r.data, expires |-> now + SevenDays]
    /\ recorders' = recorders \ {r}
    /\ UNCHANGED <<now, handlers, served, exprVars, questionVars, callVars, submitVars, added, boardVars, dbVars>>

\* A day passes; a request and its kv operations take far less than a
\* day, so none is under way meanwhile.
Tick ==
    /\ now < MaxDay
    /\ handlers = {}
    /\ recorders = {}
    /\ now' = now + 1
    /\ UNCHANGED <<kv, handlers, recorders, served, exprVars, questionVars, callVars, submitVars, added, boardVars, dbVars>>

NextServe ==
    \/ Request
    \/ \E h \in handlers : Respond(h)
    \/ \E r \in recorders : RecorderGet(r)
    \/ \E r \in recorders : RecorderPut(r)
    \/ Tick

SpecServe == InitServe /\ [][NextServe]_vars

\* The hashes of difficulty 1 to 3 in the catalogue.
PoolHashes ==
    { getQuestionsByDifficulty(catalogue, 1, 3)[k].hash :
        k \in 1..Len(getQuestionsByDifficulty(catalogue, 1, 3)) }

\* C18: among the requests of the device within seven days, a hash is
\* served again only when every question of difficulty 1 to 3 has been
\* served to the device before.
NoRepeatWhileUnservedRemains ==
    \A j \in 1..Len(served) :
        \A i \in 1..(j - 1) :
            (served[i].hash = served[j].hash /\ served[j].day - served[1].day < SevenDays)
                => \A hash \in PoolHashes : \E k \in 1..(j - 1) : served[k].hash = hash

\* C20: the hashes that getPlayedQuestionHashes returns belong to records
\* whose timestamp lies within the last seven days.
PlayedHashesAreRecent ==
    \A i \in 1..Len(served) :
        \A r \in served[i].played : r.timestamp > served[i].day - SevenDays

\* The number of requests that were served the hash.
TimesServed(hash) == Cardinality({ i \in 1..Len(served) : served[i].hash = hash })

\* C21: once every addQuestionRecord call started for the device has
\* completed (within the seven-day window), the stored record holds every
\* hash that a call added, with as many attempts as calls were made for it.
NoUpdateIsLost ==
    (handlers = {} /\ recorders = {} /\ now < SevenDays) =>
        \A i \in 1..Len(served) :
            \E r \in getUserQuestions :
                /\ r.hash = served[i].hash
                /\ r.attempts = TimesServed(served[i].hash)

(***************************************************************************)
(* SpecDb: POST /game/submit of one device, the D1 rows                    *)
(* Every request has passed validateExpression. The handler starts the     *)
(* INSERT into game_records, addQuestionRecord and the leaderboard         *)
(* function, and awaits Promise.all of the three.                          *)
(***************************************************************************)
\* The question and the time of the submissions.
SubmittedHash == <<"1", ",", "2", ",", "3", ",", "4">>

SubmittedTimeSpent == 30

InitDb ==
    /\ IdleExpr
    /\ IdleQuestion
    /\ IdleCalls
    /\ IdleSubmit
    /\ IdleServe
    /\ IdleBoard
    /\ db = [game_records |-> {}, leaderboard |-> {}]
    /\ submits = {}
    /\ responses = <<>>

SubmitsBegun == Len(responses) + Cardinality(submits)

\* The handler runs to its await: the three promises are started.
SubmitArrives ==
    /\ SubmitsBegun < MaxSubmits
    /\ submits' = submits \cup
          {[id |-> SubmitsBegun + 1, record |-> "insert", board |-> "select"]}
    /\ recorders' = recorders \cup
          {[id |-> SubmitsBegun + 1, hash |-> SubmittedHash, solved |-> TRUE,
            timeSpent |-> SubmittedTimeSpent, pc |-> "get", data |-> {}]}
    /\ UNCHANGED <<db, responses, kv, now, handlers, served, added,
                   exprVars, questionVars, callVars, submitVars, boardVars>>

\* dbPromise: INSERT INTO game_records.
InsertGameRecord(h) ==
    /\ h \in submits
    /\ h.record = "insert"
    /\ db' = [db EXCEPT !.game_records = @ \cup {h.id}]
    /\ submits' = (submits \ {h}) \cup {[h EXCEPT !.record = "done"]}
    /\ UNCHANGED <<responses, serveVars, exprVars, questionVars, callVars, submitVars, boardVars>>

\* leaderboardPromise: SELECT * FROM leaderboard WHERE device_id = ?
SelectLeaderboard(h) ==
    /\ h \in submits
    /\ h.board = "select"
    /\ submits' = (submits \ {h}) \cup
          {[h EXCEPT !.board = IF db.leaderboard = {} THEN "insert" ELSE "update"]}
    /\ UNCHANGED <<db, responses, serveVars, exprVars, questionVars, callVars, submitVars, boardVars>>

\* UPDATE leaderboard SET games_played = games_played + 1, games_won =
\* games_won + 1 ... WHERE device_id = ?
UpdateLeaderboard(h) ==
    /\ h \in submits
    /\ h.board = "update"
    /\ db' = [db EXCEPT !.leaderboard =
                 { [row EXCEPT !.games_played = @ + 1, !.games_won = @ + 1] : row \in @ }]
    /\ submits' = (submits \ {h}) \cup {[h EXCEPT !.board = "done"]}
    /\ UNCHANGED <<responses, serveVars, exprVars, questionVars, callVars, submitVars, boardVars>>

\* INSERT INTO leaderboard ... VALUES (?, ?, ?, 1, 1, ?, ?); device_id is
\* UNIQUE, so the statement fails when the device has a row.
InsertLeaderboard(h) ==
    /\ h \in submits
    /\ h.board = "insert"
    /\ IF db.leaderboard = {}
       THEN /\ db' = [db EXCEPT !.leaderboard = {[games_played |-> 1, games_won |-> 1]}]
            /\ submits' = (submits \ {h}) \cup {[h EXCEPT !.board = "done"]}
       ELSE /\ db' = db
            /\ submits' = (submits \ {h}) \cup {[h EXCEPT !.board = "failed"]}
    /\ UNCHANGED <<responses, serveVars, exprVars, questionVars, callVars, submitVars, boardVars>>

\* Promise.all settles: success when the three promises are fulfilled, the
\* catch block's 500 once one is rejected; the other promises run on, so
\* the response waits for them here.
SubmitResponds(h) ==
    /\ h \in submits
    /\ h.record = "done"
    /\ h.board \in {"done", "failed"}
    /\ \A r \in recorders : r.id # h.id
    /\ responses' = Append(responses,
          [id |-> h.id, status |-> IF h.board = "failed" THEN 500 ELSE 200])
    /\ submits' = submits \ {h}
    /\ UNCHANGED <<db, serveVars, exprVars, questionVars, callVars, submitVars, boardVars>>

NextDb ==
    \/ SubmitArrives
    \/ \E h \in submits : InsertGameRecord(h)
    \/ \E h \in submits : SelectLeaderboard(h)
    \/ \E h \in submits : UpdateLeaderboard(h)
    \/ \E h \in submits : InsertLeaderboard(h)
    \/ \E h \in submits : SubmitResponds(h)
    \/ \E r \in recorders : RecorderGet(r)
    \/ \E r \in recorders : RecorderPut(r)

SpecDb == InitDb /\ [][NextDb]_vars

\* C22: when every submission of the device has completed there is one
\* leaderboard row, its games_won and games_played are the number of
\* game_records rows, and every request whose row was inserted got the
\* success response.
LeaderboardCountsEveryRecord ==
    (submits = {} /\ Len(responses) > 0) =>
        /\ Cardinality(db.leaderboard) = 1
        /\ \A row \in db.leaderboard :
             /\ row.games_played = Cardinality(db.game_records)
             /\ row.games_won = Cardinality(db.game_records)
        /\ \A k \in 1..Len(responses) :
             responses[k].id \in db.game_records => responses[k].status = 200

(***************************************************************************)
(* The submission path: calculateExpression's string given to              *)
(* validateExpression                                                      *)
(***************************************************************************)
\* question.numbers of a card list that uses exactly the puzzle's numbers:
\* the values of its number cards.
NumbersOfCards(cardList) ==
    LET numberCards == SelectSeq(flattenCards(cardList), LAMBDA c : c.type = "number")
    IN  [k \in 1..Len(numberCards) |-> numberCards[k].value]

\* The validation that POST /game/submit runs on the body built by
\* handleGameResult: numbers of the question, expression of the result.
SubmitValidation(cardList, result) ==
    validateExpression(NumbersOfCards(cardList), result.expression)

\* C25: whenever calculateExpression has reported a list of cards with four
\* numbers correct, validateExpression accepts the returned expression
\* string together with those four numbers.
CorrectResultPassesValidation ==
    (pc = "returned" /\ gameResult.isCorrect /\ Len(NumbersOfCards(cards)) = 4)
        => SubmitValidation(cards, gameResult).valid

(***************************************************************************)
(* The solver of the catalogue against the evaluator of the board          *)
(***************************************************************************)
\* C26: when hasSolution is false for the four numbers of a card
\* expression, calculateExpression does not report the expression correct,
\* whatever its operators and parenthesis groups.
UnsolvableIsNeverCorrect ==
    (/\ pc = "returned"
     /\ Len(NumbersOfCards(cards)) = 4
     /\ \A k \in 1..4 : NumbersOfCards(cards)[k] \in 1..13
     /\ ~hasSolution(NumbersOfCards(cards)))
        => ~gameResult.isCorrect

(***************************************************************************)
(* The difficulty ceiling (checked under SpecQuestion)                     *)
(***************************************************************************)
\* C27: the difficulty of a generated question is 5 exactly when its
\* solution count is 0, and every record that pregenerateAllQuestions has
\* emitted has a difficulty strictly below 5.
CeilingExactlyForUnsolvable ==
    /\ question # NoValue =>
         ((question.difficulty = Rat(5)) <=> (question.solutionCount = 0))
    /\ \A k \in 1..Len(questions) :
         /\ questions[k].solutionCount > 0
         /\ NumLess(questions[k].difficulty, Rat(5))

\* The question [1,1,1,1] has been generated: no solution, difficulty 5.
CeilingExactlyForUnsolvableWitness ==
    /\ question # NoValue
    /\ question.numbers = <<1, 1, 1, 1>>
    /\ question.solutionCount = 0
    /\ question.difficulty = Rat(5)

(***************************************************************************)
(* Puzzles that share a hash (checked under SpecQuestion)                  *)
(***************************************************************************)
\* C28: the solution count, the solvability and the difficulty of a
\* question are those of its numbers in ascending order, the ordering that
\* all puzzles of one hash share; so they are the same for every
\* reordering of the numbers.
OrderDoesNotChangeTheRecord ==
    question # NoValue =>
        LET sorted == SortAscending(question.numbers)
        IN  /\ generateQuestionHash(sorted) = question.hash
            /\ countSolutions(sorted) = question.solutionCount
            /\ hasSolution(sorted) = (question.solutionCount > 0)
            /\ calculateDifficulty(sorted) = question.difficulty

\* A solvable question whose numbers are not in ascending order and whose
\* ascending order alone does not reach 24 from the left.
OrderDoesNotChangeTheRecordWitness ==
    /\ question # NoValue
    /\ question.numbers = <<6, 3, 1, 8>>
    /\ question.solutionCount > 0
    /\ \A o \in OperatorTriples : ~Solves(<<1, 3, 6, 8>>, o)

(***************************************************************************)
(* SpecRecord: addQuestionRecord calls for one hash, one after the other   *)
(***************************************************************************)
\* The arguments of the calls of the repository: GET /question/next passes
\* the hash alone (solved = false, no timeSpent), POST /game/submit passes
\* solved = true and the timeSpent of the request.
RecordCalls ==
    {[solved |-> FALSE, timeSpent |-> Undefined]}
    \cup {[solved |-> TRUE, timeSpent |-> t] : t \in {20, 30}}

InitRecord == InitServe

\* One whole call addQuestionRecord(deviceId, hash, solved, timeSpent):
\* get, merge, cleanup, put.
AddQuestionRecord(c) ==
    /\ Len(added) < MaxCalls
    /\ kv' = [type |-> "stored",
              data |-> addQuestionRecord(getUserQuestions, SubmittedHash,
                                         c.solved, c.timeSpent),
              expires |-> now + SevenDays]
    /\ added' = Append(added, [solved |-> c.solved, timeSpent |-> c.timeSpent,
                               at |-> now])
    /\ UNCHANGED <<now, handlers, recorders, served, catalogue, callerNumbers, call,
                   exprVars, questionVars, submitVars, boardVars, dbVars>>

NextRecord ==
    \/ \E c \in RecordCalls : AddQuestionRecord(c)
    \/ Tick

SpecRecord == InitRecord /\ [][NextRecord]_vars

\* r.solved && r.timeSpent of getUserStats: the records that enter the
\* average and the best time.
solvedRecords ==
    { r \in getUserQuestions : r.solved /\ r.timeSpent # Undefined /\ r.timeSpent # 0 }

\* Every call was made, and the record is read, less than seven days after
\* the call before.
WithinWindow ==
    /\ \A k \in 2..Len(added) : added[k].at - added[k - 1].at < SevenDays
    /\ Len(added) > 0 => now - added[Len(added)].at < SevenDays

SolvedTimes == { added[k].timeSpent : k \in { j \in 1..Len(added) : added[j].solved } }

\* C29: after calls made one after the other within the window, the record
\* of the hash is solved exactly when some call was, counts the calls in
\* attempts and, once solved, holds the smallest timeSpent of the solved
\* calls and is counted by getUserStats.
RecordSummarisesItsCalls ==
    (Len(added) > 0 /\ WithinWindow) =>
        /\ Cardinality(getUserQuestions) = 1
        /\ \A rec \in getUserQuestions :
             /\ rec.hash = SubmittedHash
             /\ rec.solved <=> (SolvedTimes # {})
             /\ rec.attempts = Len(added)
             /\ rec.solved =>
                  /\ rec.timeSpent \in SolvedTimes
                  /\ \A t \in SolvedTimes : rec.timeSpent <= t
                  /\ rec \in solvedRecords

(***************************************************************************)
(* SpecBoard: the game screen (Game) and its board (GameBoard)             *)
(*                                                                         *)
(* game holds the state of Game; expressionSlots, availableNumbers and     *)
(* availableOperators hold the state of the mounted GameBoard and are      *)
(* empty while Game renders its loading branch.  Slot k of the code is     *)
(* expressionSlots[k + 1].  The fields serial, question, of, posted,       *)
(* fresh, loads, drags and reported are history: the number of the         *)
(* question a card or a result was made for, the body a result was posted  *)
(* with, and what has happened since the question was loaded.              *)
(***************************************************************************)
\* The ids `number-${num}-${index}`, `operator-${op}-${opIndex}-${i}` and
\* `parenthesis-pair-${i}`; the operator is named by its opIndex.
CardId(kind, n, index) == [kind |-> kind, n |-> n, index |-> index]

\* numbers.map((num, index) => ({id: `number-${num}-${index}`, ...}))
BoardNumberCards(numbers, serial) ==
    [k \in 1..Len(numbers) |->
        [type |-> "number", value |-> numbers[k], content |-> <<>>,
         id |-> CardId("number", numbers[k], k - 1), question |-> serial]]

BoardOperatorCards(serial) ==
    [k \in 1..(Len(getOperators) * Len(OperatorCopies)) |->
        LET opIndex == (k - 1) \div Len(OperatorCopies)
            i       == OperatorCopies[((k - 1) % Len(OperatorCopies)) + 1]
        IN  [type |-> "operator", value |-> getOperators[opIndex + 1], content |-> <<>>,
             id |-> CardId("operator", opIndex, i), question |-> serial]]

BoardPairCard(index, serial) ==
    [type |-> "parenthesis-pair", value |-> "()", content |-> <<>>,
     id |-> CardId("parenthesis-pair", 0, index), question |-> serial]

BoardPairCards(serial) ==
    [k \in 1..Len(PairCopies) |-> BoardPairCard(PairCopies[k], serial)]

\* The initial state of expressionSlots: number and operator slots in turn.
EmptySlots ==
    [k \in 1..7 |->
        [type |-> IF k % 2 = 1 THEN "number" ELSE "operator",
         card |-> NoValue,
         leftParenthesis |-> FALSE, rightParenthesis |-> FALSE,
         parenthesesGroup |-> 0]]

\* The first index from i on whose slot closes the group; 0 when none does.
RECURSIVE RightParenthesisIndex(_, _, _)
RightParenthesisIndex(slots, i, groupId) ==
    IF i > Len(slots) THEN 0
    ELSE IF slots[i].rightParenthesis /\ slots[i].parenthesesGroup = groupId THEN i
    ELSE RightParenthesisIndex(slots, i + 1, groupId)

\* The cards of the slots from index to rightParenthesisIndex.
InnerCards(slots, index, rightParenthesisIndex) ==
    LET filled == SelectSeq([k \in 1..(rightParenthesisIndex - index + 1) |-> slots[index + k - 1]],
                            LAMBDA slot : slot.card # NoValue)
    IN  [k \in 1..Len(filled) |-> filled[k].card]

\* The forEach of convertSlotsToExpressionCards from index on.
RECURSIVE ConvertFrom(_, _, _, _)
ConvertFrom(slots, index, cardList, processedGroups) ==
    IF index > Len(slots) THEN cardList
    ELSE LET slot == slots[index]
         IN  IF slot.card = NoValue
             THEN ConvertFrom(slots, index + 1, cardList, processedGroups)
             ELSE IF /\ slot.leftParenthesis
                     /\ slot.parenthesesGroup # 0
                     /\ slot.parenthesesGroup \notin processedGroups
             THEN LET right == RightParenthesisIndex(slots, index, slot.parenthesesGroup)
                  IN  ConvertFrom(slots, index + 1,
                          IF right # 0
                          THEN Append(cardList,
                                   [type |-> "parenthesis-pair", value |-> "()",
                                    content |-> InnerCards(slots, index, right),
                                    id |-> CardId("parenthesis-pair", 0,
                                                  slot.parenthesesGroup),
                                    question |-> slot.card.question])
                          ELSE cardList,
                          processedGroups \cup {slot.parenthesesGroup})
             ELSE IF ~slot.leftParenthesis /\ ~slot.rightParenthesis
             THEN ConvertFrom(slots, index + 1, Append(cardList, slot.card), processedGroups)
             ELSE ConvertFrom(slots, index + 1, cardList, processedGroups)

convertSlotsToExpressionCards(slots) == ConvertFrom(slots, 1, <<>>, {})

\* The indices of the slots that hold the card with the id.
SlotsHolding(slots, id) ==
    { k \in 1..Len(slots) : slots[k].card # NoValue /\ slots[k].card.id = id }

FirstOf(indices) == CHOOSE k \in indices : \A j \in indices : k <= j

WithoutCard(cardList, id) == SelectSeq(cardList, LAMBDA c : c.id # id)

\* What a handler of the board leaves: the three pieces of state, and
\* whether setExpressionSlots was called.
BoardState(slots, numbers, operators, changed) ==
    [slots |-> slots, numbers |-> numbers, operators |-> operators, changed |-> changed]

\* handleCardDrop(card, targetPosition, sourceType)
handleCardDrop(slots, numbers, operators, card, targetPosition, sourceType) ==
    LET held     == SlotsHolding(slots, card.id)
        cleared  == IF sourceType = "expression" /\ held # {}
                    THEN [slots EXCEPT ![FirstOf(held)].card = NoValue]
                    ELSE slots
        newSlots == [cleared EXCEPT ![targetPosition + 1].card = card]
    IN  BoardState(newSlots,
                   IF sourceType = "numbers" THEN WithoutCard(numbers, card.id) ELSE numbers,
                   IF sourceType = "operators" THEN WithoutCard(operators, card.id)
                   ELSE operators,
                   TRUE)

\* Date.now() of handleParenthesesDrop: a group id that no slot and no pair
\* card carries.
NewGroupId(slots, operators) ==
    LET used == { slots[k].parenthesesGroup : k \in 1..Len(slots) }
                \cup { operators[k].id.index :
                           k \in { j \in 1..Len(operators) :
                                      operators[j].type = "parenthesis-pair" } }
    IN  CHOOSE g \in 1..(Len(slots) + Len(operators) + 1) :
            /\ g \notin used
            /\ \A h \in 1..(g - 1) : h \in used

\* handleParenthesesDrop(parenthesesCard, targetPosition, sourceType)
handleParenthesesDrop(slots, numbers, operators, parenthesesCard, targetPosition, sourceType) ==
    LET target   == targetPosition + 1
        leftPos  == target - 1
        rightPos == target + 1
        groupId  == NewGroupId(slots, operators)
    IN  IF /\ slots[target].type = "operator"
           /\ leftPos >= 1
           /\ rightPos <= Len(slots)
           /\ slots[leftPos].card # NoValue
           /\ slots[leftPos].card.type = "number"
           /\ slots[rightPos].card # NoValue
           /\ slots[rightPos].card.type = "number"
           /\ slots[target].card # NoValue
           /\ slots[target].card.type = "operator"
        THEN BoardState([slots EXCEPT ![leftPos].leftParenthesis = TRUE,
                                      ![leftPos].parenthesesGroup = groupId,
                                      ![rightPos].rightParenthesis = TRUE,
                                      ![rightPos].parenthesesGroup = groupId],
                        numbers,
                        IF sourceType = "operators"
                        THEN WithoutCard(operators, parenthesesCard.id) ELSE operators,
                        TRUE)
        ELSE BoardState(slots, numbers, operators, FALSE)

\* handleDragEnd for the card with id activeId dropped over the slot at
\* position over.
handleDragEnd(slots, numbers, operators, activeId, over) ==
    LET held        == SlotsHolding(slots, activeId)
        inNumbers   == SelectSeq(numbers, LAMBDA c : c.id = activeId)
        inOperators == SelectSeq(operators, LAMBDA c : c.id = activeId)
        sourceType  == IF held # {} THEN "expression"
                       ELSE IF Len(inNumbers) > 0 THEN "numbers"
                       ELSE "operators"
        draggedCard == IF held # {} THEN slots[FirstOf(held)].card
                       ELSE IF Len(inNumbers) > 0 THEN inNumbers[1]
                       ELSE IF Len(inOperators) > 0 THEN inOperators[1]
                       ELSE NoValue
    IN  IF draggedCard = NoValue THEN BoardState(slots, numbers, operators, FALSE)
        ELSE IF draggedCard.type = "parenthesis-pair"
             THEN handleParenthesesDrop(slots, numbers, operators, draggedCard, over, sourceType)
        ELSE IF draggedCard.type = slots[over + 1].type
             THEN handleCardDrop(slots, numbers, operators, draggedCard, over, sourceType)
        ELSE BoardState(slots, numbers, operators, FALSE)

\* resetExpression(): the cards of the slots and one pair for each group go
\* back to the trays, the slots are cleared.
RECURSIVE ReturnedFrom(_, _, _, _)
ReturnedFrom(slots, index, returned, usedGroups) ==
    IF index > Len(slots) THEN returned
    ELSE LET slot      == slots[index]
             withCard  == IF slot.card # NoValue /\ slot.card.type = "number"
                          THEN [returned EXCEPT !.numbers = Append(@, slot.card)]
                          ELSE IF slot.card # NoValue /\ slot.card.type = "operator"
                          THEN [returned EXCEPT !.operators = Append(@, slot.card)]
                          ELSE returned
             newGroup  == slot.parenthesesGroup # 0 /\ slot.parenthesesGroup \notin usedGroups
             withGroup == IF newGroup
                          THEN [withCard EXCEPT !.operators =
                                   Append(@, BoardPairCard(slot.parenthesesGroup, 0))]
                          ELSE withCard
         IN  ReturnedFrom(slots, index + 1, withGroup,
                          IF newGroup THEN usedGroups \cup {slot.parenthesesGroup}
                          ELSE usedGroups)

resetExpression(slots, numbers, operators) ==
    LET returned == ReturnedFrom(slots, 1, [numbers |-> <<>>, operators |-> <<>>], {})
    IN  BoardState([k \in 1..Len(slots) |->
                       [slots[k] EXCEPT !.card = NoValue, !.leftParenthesis = FALSE,
                                        !.rightParenthesis = FALSE, !.parenthesesGroup = 0]],
                   numbers \o returned.numbers,
                   operators \o returned.operators,
                   TRUE)

\* The state of Game after its first render: isLoading is true, the first
\* fetchNextQuestion is under way.
InitialGame ==
    [isLoading |-> TRUE, question |-> NoValue, gameResult |-> NoValue,
     fetch |-> "pending", loads |-> 0, fresh |-> FALSE, drags |-> 0,
     reported |-> FALSE]

\* Variant of LoadedGame without setGameResult(null).
LoadedGameKeepingResult(g, numbers) ==
    [g EXCEPT !.question = [numbers |-> numbers, serial |-> g.loads + 1],
              !.loads = @ + 1,
              !.fresh = TRUE,
              !.drags = 0,
              !.isLoading = FALSE,
              !.fetch = "none"]

\* fetchNextQuestion after response.ok: setQuestion, setGameResult(null),
\* and setIsLoading(false) of the finally block.
LoadedGame(g, numbers) ==
    [g EXCEPT !.question = [numbers |-> numbers, serial |-> g.loads + 1],
              !.gameResult = NoValue,
              !.loads = @ + 1,
              !.fresh = TRUE,
              !.drags = 0,
              !.isLoading = FALSE,
              !.fetch = "none"]

\* The numbers of the questions whose cards lie in the slots.
QuestionsOfSlots(slots) ==
    { slots[k].card.question : k \in { j \in 1..Len(slots) : slots[j].card # NoValue } }

\* The body of the POST to /api/game/submit (question.numbers with
\* result.expression and result.isCorrect).
SubmitBody(g, result, of) ==
    [numbers |-> g.question.numbers, question |-> g.question.serial,
     expression |-> result.expression, isCorrect |-> result.isCorrect, of |-> of]

\* handleGameResult(result): setGameResult(result); posted holds the body
\* that the call sends when there is a question.
handleGameResult(g, result, of) ==
    [g EXCEPT !.reported = TRUE, !.gameResult =
        [expression |-> result.expression, result |-> result.result,
         isCorrect |-> result.isCorrect, of |-> of,
         posted |-> IF g.question # NoValue THEN SubmitBody(g, result, of) ELSE NoValue]]

InitBoard ==
    /\ IdleExpr
    /\ IdleQuestion
    /\ IdleCalls
    /\ IdleSubmit
    /\ IdleServe
    /\ IdleDb
    /\ expressionSlots = <<>>
    /\ availableNumbers = <<>>
    /\ availableOperators = <<>>
    /\ game = InitialGame

GameBoardMounted == ~game.isLoading /\ game.question # NoValue

\* GameBoard is mounted for the question: empty slots, and the effect on
\* numbers fills the trays.
Mount(q) ==
    /\ expressionSlots' = EmptySlots
    /\ availableNumbers' = BoardNumberCards(q.numbers, q.serial)
    /\ availableOperators' = BoardOperatorCards(q.serial) \o BoardPairCards(q.serial)

\* Game renders its loading branch: GameBoard is unmounted.
Unmount ==
    /\ expressionSlots' = <<>>
    /\ availableNumbers' = <<>>
    /\ availableOperators' = <<>>

\* handleNewGame: fetchNextQuestion up to its fetch.
StartFetch ==
    /\ GameBoardMounted
    /\ game.loads < MaxLoads
    /\ game' = [game EXCEPT !.isLoading = TRUE, !.fetch = "pending", !.fresh = FALSE]
    /\ Unmount
    /\ UNCHANGED <<exprVars, questionVars, callVars, submitVars, serveVars, dbVars>>

\* The response is ok: the question is stored and the board is mounted.
FetchSucceeds(numbers) ==
    /\ game.fetch = "pending"
    /\ game' = LoadedGame(game, numbers)
    /\ Mount(game'.question)
    /\ UNCHANGED <<exprVars, questionVars, callVars, submitVars, serveVars, dbVars>>

\* The response is not ok, or fetch throws: only the finally block acts.
FetchFails ==
    /\ game.fetch = "pending"
    /\ game' = [game EXCEPT !.isLoading = FALSE, !.fetch = "none"]
    /\ IF game.question # NoValue THEN Mount(game.question) ELSE Unmount
    /\ UNCHANGED <<exprVars, questionVars, callVars, submitVars, serveVars, dbVars>>

\* A card is dropped over a slot: handleDragEnd, and when the slots were
\* set, the effect that evaluates them and reports a result.
DragEnd(activeId, over) ==
    /\ GameBoardMounted
    /\ game.drags < MaxDrags
    /\ LET after  == handleDragEnd(expressionSlots, availableNumbers, availableOperators,
                                   activeId, over)
           expressionCards == convertSlotsToExpressionCards(after.slots)
           result == calculateExpression(expressionCards)
           report == /\ after.changed
                     /\ Len(expressionCards) >= 3
                     /\ result.expression # <<>>
           of     == QuestionsOfSlots(after.slots)
       IN  /\ after.changed
           /\ expressionSlots' = after.slots
           /\ availableNumbers' = after.numbers
           /\ availableOperators' = after.operators
           /\ game' = [(IF report THEN handleGameResult(game, result, of) ELSE game)
                        EXCEPT !.fresh = FALSE, !.drags = @ + 1]
    /\ UNCHANGED <<exprVars, questionVars, callVars, submitVars, serveVars, dbVars>>

\* The reset button of the board, shown while a slot holds a card.
ResetBoard ==
    /\ GameBoardMounted
    /\ \E k \in 1..Len(expressionSlots) : expressionSlots[k].card # NoValue
    /\ LET after == resetExpression(expressionSlots, availableNumbers, availableOperators)
       IN  /\ expressionSlots' = after.slots
           /\ availableNumbers' = after.numbers
           /\ availableOperators' = after.operators
    /\ UNCHANGED <<game, exprVars, questionVars, callVars, submitVars, serveVars, dbVars>>

\* handleReset of the result panel of a wrong result.
handleReset ==
    /\ GameBoardMounted
    /\ game.gameResult # NoValue
    /\ game' = [game EXCEPT !.gameResult = NoValue]
    /\ UNCHANGED <<expressionSlots, availableNumbers, availableOperators,
                   exprVars, questionVars, callVars, submitVars, serveVars, dbVars>>

\* The ids of the cards of the board.
BoardCardIds ==
    { expressionSlots[k].card.id :
        k \in { j \in 1..Len(expressionSlots) : expressionSlots[j].card # NoValue } }
    \cup { availableNumbers[k].id : k \in 1..Len(availableNumbers) }
    \cup { availableOperators[k].id : k \in 1..Len(availableOperators) }

NextBoard ==
    \/ StartFetch
    \/ \E numbers \in BoardPuzzles : FetchSucceeds(numbers)
    \/ FetchFails
    \/ \E activeId \in BoardCardIds, over \in DropSlots : DragEnd(activeId, over)
    \/ ResetBoard
    \/ handleReset

SpecBoard == InitBoard /\ [][NextBoard]_vars

(***************************************************************************)
(* Properties of the board and the game screen (checked under SpecBoard)   *)
(***************************************************************************)
\* The number of places, slots and tray, that hold the card with the id.
Places(id) ==
    Cardinality(SlotsHolding(expressionSlots, id))
    + Len(SelectSeq(availableNumbers, LAMBDA c : c.id = id))

\* C23: while the board is shown, every number card of the question is in
\* exactly one place, a slot or the tray of numbers; so when all slots are
\* empty, as after a reset, the tray holds all four.
EveryNumberCardInOnePlace ==
    GameBoardMounted =>
        \A k \in 1..Len(game.question.numbers) :
            Places(BoardNumberCards(game.question.numbers, game.question.serial)[k].id) = 1

\* Slot k opens a group that closes two slots later, and the three slots
\* are filled.
WrapsFilledTriple(slots, k) ==
    /\ k + 2 <= Len(slots)
    /\ slots[k].leftParenthesis
    /\ slots[k].parenthesesGroup # 0
    /\ slots[k + 2].rightParenthesis
    /\ slots[k + 2].parenthesesGroup = slots[k].parenthesesGroup
    /\ \A j \in k..(k + 2) : slots[j].card # NoValue

\* Every parenthesis that a slot shows belongs to such a group.
WellGrouped(slots) ==
    /\ \E k \in 1..Len(slots) : WrapsFilledTriple(slots, k)
    /\ \A k \in 1..Len(slots) :
         /\ slots[k].leftParenthesis => WrapsFilledTriple(slots, k)
         /\ slots[k].rightParenthesis => k > 2 /\ WrapsFilledTriple(slots, k - 2)

\* A flattened card by its id; a parenthesis by its character.
TokenOf(card) ==
    IF card.type = "parenthesis" THEN [kind |-> card.value, n |-> 0, index |-> 0]
    ELSE card.id

\* The placed cards in slot order, each shown parenthesis next to its card.
RECURSIVE ShownTokens(_, _)
ShownTokens(slots, k) ==
    IF k > Len(slots) THEN <<>>
    ELSE (IF slots[k].card = NoValue THEN <<>>
          ELSE (IF slots[k].leftParenthesis THEN <<TokenOf(ParenCard("("))>> ELSE <<>>)
               \o <<slots[k].card.id>>
               \o (IF slots[k].rightParenthesis THEN <<TokenOf(ParenCard(")"))>> ELSE <<>>))
         \o ShownTokens(slots, k + 1)

FlatTokens(slots) ==
    LET flatCards == flattenCards(convertSlotsToExpressionCards(slots))
    IN  [k \in 1..Len(flatCards) |-> TokenOf(flatCards[k])]

\* C24: when a parenthesis group wraps a filled triple, the flattened cards
\* of convertSlotsToExpressionCards are the placed cards once each in slot
\* order, '(' before the first and ')' after the last card of the group.
GroupIsFlattenedOnce ==
    (GameBoardMounted /\ WellGrouped(expressionSlots))
        => FlatTokens(expressionSlots) = ShownTokens(expressionSlots, 1)

====
